---- MODULE Spec2Model ----
(***************************************************************************)
(* Model of the event-derivation engine (src/src/cs2_gsi.py,               *)
(* CS2GameStateIntegration), of the reaction dispatcher                    *)
(* (src/src/iris_brain.py, IrisBrain) and of the callbacks and threads     *)
(* that join them (src/main.py, IrisAssistant) in the Iris stream          *)
(* companion.                                                              *)
(*                                                                         *)
(* An optional value (a key that a JSON object may or may not carry) is a  *)
(* set with at most one element: {} is "key absent", {v} is "key -> v".    *)
(* A snapshot group that is absent or an empty object is {} as well, as    *)
(* the code tests the group with `if player_data:`.                        *)
(* A sub-structure of a group (player.state, player.match_stats,           *)
(* player.weapons, map.team_ct, map.team_t) has a form: "dict", an object  *)
(* whose keys are the group's optional fields (a missing sub-structure is  *)
(* the empty object, by `.get(key, {})`), or "null", the JSON null.        *)
(***************************************************************************)
EXTENDS Integers, Sequences, FiniteSets, TLC

VARIABLES
    \* ---- CS2GameStateIntegration (src/src/cs2_gsi.py:56-65) ----
    player,            \* PlayerState: team, health, round_kills, kills, deaths
    round,             \* RoundState: phase, bomb, win_team
    map,               \* MapState: phase, round, ct_score, t_score
    previous_state,    \* the last snapshot handed to _process_game_state
    kill_streak,
    round_start_kills,
    clutch_situation,
    events,            \* the events _emit_event appended to events_history during the latest call
    delivered,         \* the events event_callback was called with during the latest call
    repeated,          \* the latest call received the snapshot of the call before
    request,           \* the body of the latest POST
    raised,            \* the latest call left _process_game_state by an exception
    caught,            \* the event types whose callback exception _emit_event caught during the latest call
    events_history,    \* deque(maxlen=100) of the emitted events, each with its emission number
    emitted,           \* the number of events emitted so far
    \* ---- IrisBrain (src/src/iris_brain.py:171-241) ----
    now,                  \* the clock time.time() reads, in seconds
    fallback_mode,        \* no LLM client: every response is a template
    last_response_times,  \* kind -> time of the latest reaction, for the kinds that reacted
    response_variety,     \* the rotation counters 'kill' and 'death'
    player_stats,         \* kills and deaths as the dispatcher counts them
    frame,                \* per thread: the dispatcher call it runs, or ran last
    accepted,             \* per rotating kind: calls with a rotation prompt the cooldown let pass
    ncalls,               \* dispatcher calls started so far
    \* ---- IrisAssistant (src/main.py) and the threads it starts ----
    is_running,           \* IrisAssistant.is_running
    gsi_is_running,       \* CS2GameStateIntegration.is_running
    achievements,         \* AchievementSystem.achievements: id -> unlocked, progress
    ach_stats,            \* AchievementSystem.stats, the counters that unlock achievements
    ach_calls,            \* how often achievement_callback was called, by achievement id
    nrecords,             \* record_* calls made so far
    assembled,            \* the engine is the one IrisAssistant built (not its own harness)
    tts_is_running,       \* TTSEngine.is_running
    message_queue,        \* TTSEngine.message_queue, a PriorityQueue
    currently_speaking,   \* TTSEngine.currently_speaking
    processing_thread,    \* TTSEngine.processing_thread: where _process_queue is
    processed,            \* the messages _process_queue took out, in that order
    nspeak,               \* TTSEngine.speak calls made so far
    tts_clock,            \* time.time() * 1000 as speak read it last
    tts,                  \* the responder exists (self.tts is not None, main.py:108-120)
    tts_busy,             \* what tts.is_busy() returns
    spoken,               \* the texts handed to tts.speak, with the clock time of each
    loop,                 \* _random_comment_loop: where the ticker thread is
    gsi_frame,            \* per request thread: the gsi_handler execution it runs
    batch                 \* the POSTs handled since no gsi_handler was running

gsiVars == <<player, round, map, previous_state, kill_streak,
             round_start_kills, clutch_situation, events, delivered, repeated,
             request, raised, caught, events_history, emitted>>

brainVars == <<now, fallback_mode, last_response_times, response_variety,
               player_stats, frame, accepted, ncalls>>

achVars == <<achievements, ach_stats, ach_calls, nrecords>>

ttsVars == <<assembled, tts_is_running, message_queue, currently_speaking,
             processing_thread, processed, nspeak, tts_clock>>

appVars ==
    <<is_running, gsi_is_running, tts, tts_busy, spoken, loop, gsi_frame, batch, achVars,
      ttsVars>>

vars == <<gsiVars, brainVars, appVars>>

\* ------------------------------------------------------------------------
\* Bounds of the model
\* ------------------------------------------------------------------------
MaxKills == 3
MaxDeaths == 2
MaxRoundKills == 6
MaxStreak == 4
MaxTicks == 6
MaxCalls == 3
StartTime == 30
MaxConcCalls == 2
MaxConcTicks == 3
MaxSkew == 2

\* ------------------------------------------------------------------------
\* Program constants of the tracker
\* ------------------------------------------------------------------------
LowHealthThreshold == 25
HeavyDamageThreshold == 50
NinjaDefuseHealth == 10
DefaultHealth == 100

Absent == {}

\* dict.get(key, default)
Get(opt, default) == IF opt = {} THEN default ELSE CHOOSE v \in opt : TRUE

Opt(S) == {{}} \cup {{v} : v \in S}

\* the key is always carried
Opt2(S) == {{v} : v \in S}

\* ------------------------------------------------------------------------
\* The tracker as a record, so that the handler's sequential code is a
\* composition of functions on it.
\* ------------------------------------------------------------------------
InitTracker ==
    [player |-> [team |-> "", health |-> DefaultHealth, round_kills |-> 0,
                 kills |-> 0, deaths |-> 0],
     round |-> [phase |-> "", bomb |-> "", win_team |-> ""],
     map |-> [phase |-> "", round |-> 0, ct_score |-> 0, t_score |-> 0],
     kill_streak |-> 0,
     round_start_kills |-> 0,
     clutch_situation |-> FALSE,
     events |-> <<>>,
     delivered |-> <<>>,
     raised |-> FALSE,
     fails |-> {},
     caught |-> <<>>]

\* mutant: the callback gets the events of a call latest first
EmitEvent_LatestFirst(st, event_type, data) ==
    [st EXCEPT !.events = Append(@, [type |-> event_type, data |-> data]),
               !.delivered = <<[type |-> event_type, data |-> data]>> \o @]

\* mutant: an exception of the callback leaves _emit_event
EmitEvent_CallbackPropagates(st, event_type, data) ==
    [st EXCEPT !.events = Append(@, [type |-> event_type, data |-> data]),
               !.delivered = Append(@, [type |-> event_type, data |-> data]),
               !.raised = @ \/ event_type \in st.fails]

\* _emit_event: the event goes to events_history and, once, to
\* event_callback; `fails` are the event types the callback raises an
\* Exception for, which lines 184-187 catch and print
EmitEvent(st, event_type, data) ==
    [st EXCEPT !.events = Append(@, [type |-> event_type, data |-> data]),
               !.delivered = Append(@, [type |-> event_type, data |-> data]),
               !.caught = IF event_type \in st.fails THEN Append(@, event_type) ELSE @]

\* None.get(...) / None.items(): AttributeError leaves _process_game_state
Raise(st) == [st EXCEPT !.raised = TRUE]

KillTier(round_kills) ==
    IF round_kills >= 5 THEN "ace"
    ELSE IF round_kills >= 4 THEN "quadra_kill"
    ELSE IF round_kills >= 3 THEN "triple_kill"
    ELSE IF round_kills >= 2 THEN "double_kill"
    ELSE "kill"

\* mutant: the tier is taken from the size of the kill-counter increase
EmitKillEvent_ByDelta(st, kill_count) ==
    LET s1 == [st EXCEPT !.kill_streak = @ + kill_count]
        event_data == [kills_this_action |-> kill_count,
                       round_kills |-> s1.player.round_kills,
                       total_kills |-> s1.player.kills,
                       kill_streak |-> s1.kill_streak,
                       clutch |-> s1.clutch_situation,
                       ace |-> kill_count >= 5]
    IN  EmitEvent(s1, KillTier(kill_count), event_data)

EmitKillEvent(st, kill_count) ==
    LET s1 == [st EXCEPT !.kill_streak = @ + kill_count]
        event_data == [kills_this_action |-> kill_count,
                       round_kills |-> s1.player.round_kills,
                       total_kills |-> s1.player.kills,
                       kill_streak |-> s1.kill_streak,
                       clutch |-> s1.clutch_situation,
                       ace |-> s1.player.round_kills >= 5]
    IN  EmitEvent(s1, KillTier(s1.player.round_kills), event_data)

\* mutant: the kill streak survives the death
EmitDeathEvent_NoReset(st) ==
    EmitEvent(st, "death", [total_deaths |-> st.player.deaths,
                            round |-> st.map.round])

EmitDeathEvent(st) ==
    LET s1 == [st EXCEPT !.kill_streak = 0]
    IN  EmitEvent(s1, "death", [total_deaths |-> s1.player.deaths,
                                round |-> s1.map.round])

\* mutant: heavy_damage tested by a separate `if`, not by `elif`
EmitDamageEvent_NoElif(st, damage) ==
    LET event_data == [damage |-> damage, current_health |-> st.player.health]
        s1 == IF st.player.health <= LowHealthThreshold
              THEN EmitEvent(st, "low_health", event_data) ELSE st
    IN  IF damage >= HeavyDamageThreshold
        THEN EmitEvent(s1, "heavy_damage", event_data)
        ELSE s1

EmitDamageEvent(st, damage) ==
    LET event_data == [damage |-> damage, current_health |-> st.player.health]
    IN  IF st.player.health <= LowHealthThreshold
        THEN EmitEvent(st, "low_health", event_data)
        ELSE IF damage >= HeavyDamageThreshold
        THEN EmitEvent(st, "heavy_damage", event_data)
        ELSE st

\* mutant: a new round starts as a clutch
EmitRoundStartEvent_Clutch(st) ==
    LET s1 == [st EXCEPT !.kill_streak = 0,
                         !.round_start_kills = st.player.kills,
                         !.clutch_situation = TRUE]
    IN  EmitEvent(s1, "round_start", [round |-> s1.map.round,
                                      ct_score |-> s1.map.ct_score,
                                      t_score |-> s1.map.t_score])

EmitRoundStartEvent(st) ==
    LET s1 == [st EXCEPT !.kill_streak = 0,
                         !.round_start_kills = st.player.kills,
                         !.clutch_situation = FALSE]
    IN  EmitEvent(s1, "round_start", [round |-> s1.map.round,
                                      ct_score |-> s1.map.ct_score,
                                      t_score |-> s1.map.t_score])

\* str.lower() on the team names the game sends
Lower(s) ==
    IF s = "CT" THEN "ct" ELSE IF s = "T" THEN "t" ELSE s

\* mutant: `won` compares the team names without testing win_team for emptiness
EmitRoundEndEvent_NoEmptyTest(st) ==
    LET round_kills == st.player.kills - st.round_start_kills
    IN  EmitEvent(st, "round_end",
            [round |-> st.map.round,
             win_team |-> st.round.win_team,
             player_team |-> st.player.team,
             won |-> Lower(st.round.win_team) = Lower(st.player.team),
             round_kills |-> round_kills,
             clutch_win |-> st.clutch_situation /\ round_kills > 0])

\* mutant: round_kills is the kill counter itself
EmitRoundEndEvent_TotalKills(st) ==
    LET round_kills == st.player.kills
    IN  EmitEvent(st, "round_end",
            [round |-> st.map.round,
             win_team |-> st.round.win_team,
             player_team |-> st.player.team,
             won |-> IF st.round.win_team # ""
                     THEN Lower(st.round.win_team) = Lower(st.player.team)
                     ELSE FALSE,
             round_kills |-> round_kills,
             clutch_win |-> st.clutch_situation /\ round_kills > 0])

EmitRoundEndEvent(st) ==
    LET round_kills == st.player.kills - st.round_start_kills
    IN  EmitEvent(st, "round_end",
            [round |-> st.map.round,
             win_team |-> st.round.win_team,
             player_team |-> st.player.team,
             won |-> IF st.round.win_team # ""
                     THEN Lower(st.round.win_team) = Lower(st.player.team)
                     ELSE FALSE,
             round_kills |-> round_kills,
             clutch_win |-> st.clutch_situation /\ round_kills > 0])

EmitBombPlantedEvent(st) ==
    EmitEvent(st, "bomb_planted", [round |-> st.map.round,
                                   player_team |-> st.player.team])

\* mutant: the ninja case is a separate event, for health below the threshold
EmitBombDefusedEvent_SeparateNinja(st) ==
    LET s1 == EmitEvent(st, "bomb_defused", [round |-> st.map.round,
                                             player_team |-> st.player.team,
                                             ninja_defuse |-> FALSE])
    IN  IF st.player.health < NinjaDefuseHealth
        THEN EmitEvent(s1, "ninja_defuse", [round |-> st.map.round])
        ELSE s1

EmitBombDefusedEvent(st) ==
    EmitEvent(st, "bomb_defused", [round |-> st.map.round,
                                   player_team |-> st.player.team,
                                   ninja_defuse |-> st.player.health <= NinjaDefuseHealth])

EmitBombExplodedEvent(st) ==
    EmitEvent(st, "bomb_exploded", [round |-> st.map.round,
                                    player_team |-> st.player.team])

EmitMatchEndEvent(st) ==
    EmitEvent(st, "match_end",
        [ct_score |-> st.map.ct_score,
         t_score |-> st.map.t_score,
         player_team |-> st.player.team,
         won |-> \/ (st.player.team = "CT" /\ st.map.ct_score > st.map.t_score)
                 \/ (st.player.team = "T" /\ st.map.t_score > st.map.ct_score)])

\* `cond` guards one `if ...: self._emit_...()` statement
When(cond, st, next) == IF cond THEN next ELSE st

\* the player group: lines 95-134
\* mutant: one kill event for each kill of the increase
KillCheck_PerKill(st, old_kills) ==
    LET n == st.player.kills - old_kills
    IN  IF n <= 0 THEN st
        ELSE IF n = 1 THEN EmitKillEvent(st, 1)
        ELSE EmitKillEvent(EmitKillEvent(st, 1), n - 1)

KillCheck(st, old_kills) ==
    When(st.player.kills > old_kills, st,
         EmitKillEvent(st, st.player.kills - old_kills))

DeathCheck(st, old_deaths) ==
    When(st.player.deaths > old_deaths, st, EmitDeathEvent(st))

DamageCheck(st, old_health) ==
    When(st.player.health < old_health /\ st.player.health > 0, st,
         EmitDamageEvent(st, old_health - st.player.health))

ProcessPlayer(st, player_data) ==
    IF player_data = Absent THEN st
    ELSE
    LET pd == Get(player_data, <<>>)
        old_health == st.player.health
        old_kills == st.player.kills
        old_deaths == st.player.deaths
        \* line 107
        p1 == [st EXCEPT !.player.team = Get(pd.team, @)]
        \* lines 108-114
        p2 == [p1 EXCEPT !.player.health = Get(pd.health, @),
                         !.player.round_kills = Get(pd.round_kills, @)]
        \* lines 116-120
        s1 == [p2 EXCEPT !.player.kills = Get(pd.kills, @),
                         !.player.deaths = Get(pd.deaths, @)]
        s2 == KillCheck(s1, old_kills)
        s3 == DeathCheck(s2, old_deaths)
    IN  IF pd.state = "null" THEN Raise(p1)
        ELSE IF pd.match_stats = "null" THEN Raise(p2)
        ELSE IF pd.weapons = "null" THEN Raise(s1)
        ELSE DamageCheck(s3, old_health)

\* the round group: lines 136-158
\* mutant: level-triggered, the old phase is not compared
RoundStartCheck_Level(st, old_phase) ==
    When(st.round.phase = "freezetime", st, EmitRoundStartEvent(st))

RoundStartCheck(st, old_phase) ==
    When(st.round.phase = "freezetime" /\ old_phase # "freezetime", st,
         EmitRoundStartEvent(st))

RoundEndCheck(st, old_phase) ==
    When(st.round.phase = "over" /\ old_phase # "over", st,
         EmitRoundEndEvent(st))

\* mutant: level-triggered, the old value is not compared
BombPlantedCheck_Level(st, old_bomb) ==
    When(st.round.bomb = "planted", st, EmitBombPlantedEvent(st))

BombPlantedCheck(st, old_bomb) ==
    When(st.round.bomb = "planted" /\ old_bomb # "planted", st,
         EmitBombPlantedEvent(st))

BombDefusedCheck(st, old_bomb) ==
    When(st.round.bomb = "defused" /\ old_bomb # "defused", st,
         EmitBombDefusedEvent(st))

BombExplodedCheck(st, old_bomb) ==
    When(st.round.bomb = "exploded" /\ old_bomb # "exploded", st,
         EmitBombExplodedEvent(st))

\* mutant: a key the round group does not carry resets the field to its default
ProcessRound_Reset(st, round_data) ==
    IF st.raised \/ round_data = Absent THEN st
    ELSE
    LET rd == Get(round_data, <<>>)
        old_phase == st.round.phase
        old_bomb == st.round.bomb
        s1 == [st EXCEPT !.round =
                  [phase |-> Get(rd.phase, ""),
                   bomb |-> Get(rd.bomb, ""),
                   win_team |-> Get(rd.win_team, "")]]
        s2 == RoundStartCheck(s1, old_phase)
        s3 == RoundEndCheck(s2, old_phase)
        s4 == BombPlantedCheck(s3, old_bomb)
        s5 == BombDefusedCheck(s4, old_bomb)
    IN  BombExplodedCheck(s5, old_bomb)

ProcessRound(st, round_data) ==
    IF st.raised \/ round_data = Absent THEN st
    ELSE
    LET rd == Get(round_data, <<>>)
        old_phase == st.round.phase
        old_bomb == st.round.bomb
        s1 == [st EXCEPT !.round =
                  [phase |-> Get(rd.phase, @.phase),
                   bomb |-> Get(rd.bomb, @.bomb),
                   win_team |-> Get(rd.win_team, @.win_team)]]
        s2 == RoundStartCheck(s1, old_phase)
        s3 == RoundEndCheck(s2, old_phase)
        s4 == BombPlantedCheck(s3, old_bomb)
        s5 == BombDefusedCheck(s4, old_bomb)
    IN  BombExplodedCheck(s5, old_bomb)

\* the map group: lines 160-175
MatchEndCheck(st, old_round) ==
    When(st.map.phase = "gameover", st, EmitMatchEndEvent(st))

ProcessMap(st, map_data) ==
    IF st.raised \/ map_data = Absent THEN st
    ELSE
    LET md == Get(map_data, <<>>)
        old_round == st.map.round
        \* lines 166-167
        m1 == [st EXCEPT !.map.phase = Get(md.phase, @),
                         !.map.round = Get(md.round, @)]
        \* line 171
        m2 == [m1 EXCEPT !.map.ct_score = Get(md.ct_score, @)]
        \* line 172
        s1 == [m2 EXCEPT !.map.t_score = Get(md.t_score, @)]
    IN  IF md.team_ct = "null" THEN Raise(m1)
        ELSE IF md.team_t = "null" THEN Raise(m2)
        ELSE MatchEndCheck(s1, old_round)

Tracker ==
    [player |-> player, round |-> round, map |-> map,
     kill_streak |-> kill_streak, round_start_kills |-> round_start_kills,
     clutch_situation |-> clutch_situation, events |-> <<>>,
     delivered |-> <<>>, raised |-> FALSE, fails |-> {}, caught |-> <<>>]

\* _process_game_state(data) as gsi_handler calls it for a non-empty body;
\* an exception is caught by gsi_handler (lines 81-83), which answers 500,
\* and skips the assignment of previous_state (line 177)
ProcessGameStateFrom(st, data) ==
    LET s1 == ProcessPlayer(st, data.player)
        s2 == ProcessRound(s1, data.round)
    IN  \E s3 \in {ProcessMap(s2, data.map)} :
        /\ s3.kill_streak <= MaxStreak
        /\ player' = s3.player
        /\ round' = s3.round
        /\ map' = s3.map
        /\ kill_streak' = s3.kill_streak
        /\ round_start_kills' = s3.round_start_kills
        /\ clutch_situation' = s3.clutch_situation
        /\ events' = s3.events
        /\ delivered' = s3.delivered
        /\ raised' = s3.raised
        /\ caught' = s3.caught
        /\ request' = data
        /\ repeated' = (data = previous_state)
        /\ previous_state' = IF s3.raised THEN previous_state ELSE data
        /\ UNCHANGED <<brainVars, appVars>>

\* the callback raises for no event; the history is not followed
ProcessGameState(data) ==
    /\ ProcessGameStateFrom(Tracker, data)
    /\ UNCHANGED <<events_history, emitted>>

HistoryMaxLen == 100

\* mutant: a full history drops the new event
DequeAppend_KeepOldest(history, event) ==
    IF Len(history) < HistoryMaxLen THEN Append(history, event) ELSE history

\* deque.append on a deque with maxlen: a full deque drops its oldest item
DequeAppend(history, event) ==
    IF Len(history) < HistoryMaxLen THEN Append(history, event)
    ELSE Append(Tail(history), event)

\* the history after the events `new` were appended one by one, the first
\* of them being emission number `n` + 1
RECURSIVE AppendAll(_, _, _)
AppendAll(history, new, n) ==
    IF new = <<>> THEN history
    ELSE AppendAll(DequeAppend(history, [type |-> Head(new).type, seq |-> n + 1]),
                   Tail(new), n + 1)

\* a POST handled with events_history followed
GsiHandlerHistory(data) ==
    /\ ProcessGameStateFrom(Tracker, data)
    /\ events_history' = AppendAll(events_history, events', emitted)
    /\ emitted' = emitted + Len(events')

InitGSI ==
    /\ player = InitTracker.player
    /\ round = InitTracker.round
    /\ map = InitTracker.map
    /\ kill_streak = 0
    /\ round_start_kills = 0
    /\ clutch_situation = FALSE
    /\ previous_state = [player |-> Absent, round |-> Absent, map |-> Absent]
    /\ events = <<>>
    /\ delivered = <<>>
    /\ repeated = FALSE
    /\ request = [player |-> Absent, round |-> Absent, map |-> Absent]
    /\ raised = FALSE
    /\ caught = <<>>
    /\ events_history = <<>>
    /\ emitted = 0

\* ------------------------------------------------------------------------
\* The reaction dispatcher, IrisBrain.  Prompts are <<list, index>> pairs;
\* a response is "text" (a template or an LLM completion), "" (an empty
\* completion) or "none" (the call returned None).  Mood, game_state and
\* the conversation history do not decide whether or with which prompt the
\* dispatcher reacts and are left out.
\* ------------------------------------------------------------------------
Threads == {"http1", "http2", "stream", "ticker", "voice"}

DefaultCooldown == 10

Cooldowns ==
    [kill |-> 3, death |-> 5, round_end |-> 2, bomb_planted |-> 10,
     bomb_defused |-> 10, bomb_exploded |-> 10, chat_message |-> 8,
     random_comment |-> 25, general |-> 12]

\* mutant: the per-kind table is ignored
Cooldown_AlwaysDefault(event_str) == DefaultCooldown

\* self.cooldowns.get(event_str, 10.0)
Cooldown(event_str) ==
    IF event_str \in DOMAIN Cooldowns THEN Cooldowns[event_str] ELSE DefaultCooldown

\* self.last_response_times.get(event_str, 0)
LastTime(lrt, event_str) ==
    IF event_str \in DOMAIN lrt THEN lrt[event_str] ELSE 0

\* mutant: a last reaction time ahead of the clock counts as "long ago"
CanRespond_SkewAsElapsed(event_str, time, lrt, draw) ==
    IF /\ time >= LastTime(lrt, event_str)
       /\ time - LastTime(lrt, event_str) < Cooldown(event_str) THEN FALSE
    ELSE IF event_str = "chat_message" THEN draw
    ELSE TRUE

\* _can_respond; `draw` is the outcome of random.random() < p for a chat message
CanRespond(event_str, time, lrt, draw) ==
    IF time - LastTime(lrt, event_str) < Cooldown(event_str) THEN FALSE
    ELSE IF event_str = "chat_message" THEN draw
    ELSE TRUE

\* mutant: the store keeps the latest kind only
MarkResponded_OnlyLatest(lrt, event_str, time) ==
    [k \in {event_str} |-> time]

\* _mark_responded
MarkResponded(lrt, event_str, time) ==
    [k \in DOMAIN lrt \cup {event_str} |-> IF k = event_str THEN time ELSE lrt[k]]

\* what the LLM client does with a request
LlmOutcomes == {"text", "empty", "raise"}

\* _generate_fallback_response: a template of the kind, never empty
GenerateFallbackResponse == "text"

\* mutant: an LLM error leaves the call without a response
Response_RaiseIsEmpty(fallback, outcome) ==
    IF fallback THEN GenerateFallbackResponse
    ELSE IF outcome = "text" THEN "text"
    ELSE ""

\* the response generate_response builds (lines 437-473)
Response(fallback, outcome) ==
    IF fallback THEN GenerateFallbackResponse
    ELSE IF outcome = "text" THEN "text"
    ELSE IF outcome = "empty" THEN ""
    ELSE GenerateFallbackResponse

\* A frame holds the call's arguments and locals (kind, force, prompt, the
\* last_time and the clock value `at` that _can_respond read, the LLM outcome),
\* its result, and what the call found when it started: the time, the kind's
\* last reaction time and the store (entry_store), for the properties below.
\* `event` is the type of the event the call was made for, where the
\* operation is not named after it.
IdleFrame ==
    [pc |-> "idle", op |-> "", kind |-> "", force |-> FALSE, prompt |-> <<"", 0>>,
     at |-> 0, last_time |-> 0, llm |-> "", result |-> "",
     entry_store |-> <<>>, event |-> "", emotion |-> "neutral"]

\* mutant: `force` is not consulted
EntryPc_IgnoreForce(force) == "can_respond"

\* the rotation list a prompt was taken from, "" if from none
RotationKind(prompt) ==
    IF prompt[1] = "kill_rotation" THEN "kill"
    ELSE IF prompt[1] \in {"death_low_kd", "death_many", "death_headshot", "death_default"}
    THEN "death"
    ELSE ""

\* generate_response, lines 428-431: a forced call skips _can_respond
EntryPc(force) == IF force THEN "generate" ELSE "can_respond"

\* a thread enters generate_response(prompt, event_type, force)
Enter(op, kind, force, prompt) ==
    [IdleFrame EXCEPT !.pc = EntryPc(force), !.op = op, !.kind = kind,
                      !.force = force, !.prompt = prompt, !.result = "pending",
                      !.at = now, !.last_time = LastTime(last_response_times, kind),
                      !.entry_store = <<response_variety, last_response_times>>]

\* a thread enters an operation that tests _can_respond before generate_response
EnterPreCheck(op, kind, prompt) ==
    [IdleFrame EXCEPT !.pc = "pre_check", !.op = op, !.kind = kind,
                      !.prompt = prompt, !.result = "pending",
                      !.at = now, !.last_time = LastTime(last_response_times, kind),
                      !.entry_store = <<response_variety, last_response_times>>]

\* the operation returns `result`
Return(f, result) == [f EXCEPT !.pc = "idle", !.result = result]

CanStart(t) == frame[t].pc = "idle" /\ ncalls < MaxCalls

\* ---- react_to_kill --------------------------------------------------
KillRotationLen == 5
DeathRotationLen == 4

KillIsOrdinary(kill_data) ==
    ~ \/ kill_data.ace
      \/ kill_data.round_kills >= 3
      \/ kill_data.clutch
      \/ kill_data.headshot
      \/ kill_data.kill_streak >= 3

KillPrompt(kill_data, counter) ==
    IF kill_data.ace THEN <<"kill_ace", 0>>
    ELSE IF kill_data.round_kills >= 4 THEN <<"kill_four", 0>>
    ELSE IF kill_data.round_kills >= 3 THEN <<"kill_triple", 0>>
    ELSE IF kill_data.clutch THEN <<"kill_clutch", 0>>
    ELSE IF kill_data.headshot THEN <<"kill_headshot", 0>>
    ELSE IF kill_data.kill_streak >= 3 THEN <<"kill_streak", 0>>
    ELSE <<"kill_rotation", counter % KillRotationLen>>

ReactToKill(t, kill_data) ==
    /\ CanStart(t)
    /\ response_variety' =
           IF KillIsOrdinary(kill_data)
           THEN [response_variety EXCEPT !.kill = @ + 1]
           ELSE response_variety
    /\ player_stats' = [player_stats EXCEPT !.kills = @ + 1]
    /\ frame' = [frame EXCEPT ![t] =
                    Enter("react_to_kill", "kill", FALSE,
                          KillPrompt(kill_data, response_variety.kill))]
    /\ ncalls' = ncalls + 1
    /\ UNCHANGED <<now, fallback_mode, last_response_times, accepted, gsiVars, appVars>>

\* ---- react_to_death -------------------------------------------------
\* kd_ratio < 0.7 with kd_ratio = kills / deaths
KdBelow07(kills, deaths) == 10 * kills < 7 * deaths

DeathPrompt(death_data, stats, counter) ==
    LET total_deaths == Get(death_data.total_deaths, stats.deaths + 1)
        deaths == stats.deaths + 1
        variety == counter % DeathRotationLen
    IN  IF KdBelow07(stats.kills, deaths) THEN <<"death_low_kd", variety>>
        ELSE IF total_deaths > 12 THEN <<"death_many", variety>>
        ELSE IF death_data.headshot THEN <<"death_headshot", variety>>
        ELSE <<"death_default", variety>>

ReactToDeath(t, death_data) ==
    /\ CanStart(t)
    /\ player_stats' = [player_stats EXCEPT !.deaths = @ + 1]
    /\ response_variety' = [response_variety EXCEPT !.death = @ + 1]
    /\ frame' = [frame EXCEPT ![t] =
                    Enter("react_to_death", "death", FALSE,
                          DeathPrompt(death_data, player_stats, response_variety.death))]
    /\ ncalls' = ncalls + 1
    /\ UNCHANGED <<now, fallback_mode, last_response_times, accepted, gsiVars, appVars>>

\* ---- react_to_round_end ---------------------------------------------
RoundEndPrompt(round_data) ==
    IF round_data.clutch THEN <<"round_clutch", 0>>
    ELSE IF round_data.won /\ round_data.round_kills >= 3 THEN <<"round_won_kills", 0>>
    ELSE IF round_data.won THEN <<"round_won", 0>>
    ELSE IF round_data.round_kills >= 3 THEN <<"round_lost_kills", 0>>
    ELSE <<"round_lost", 0>>

ReactToRoundEnd(t, round_data) ==
    /\ CanStart(t)
    /\ frame' = [frame EXCEPT ![t] =
                    Enter("react_to_round_end", "round_end", FALSE,
                          RoundEndPrompt(round_data))]
    /\ ncalls' = ncalls + 1
    /\ UNCHANGED <<now, fallback_mode, last_response_times, response_variety,
                   player_stats, accepted, gsiVars, appVars>>

\* ---- react_to_bomb_event ---------------------------------------------
\* the prompt by event_type (lines 735-760); <<"", 0>>: the call returns None
BombPrompt(event_type, event_data) ==
    IF event_type = "plant" THEN <<"bomb_plant", 0>>
    ELSE IF event_type = "defuse"
    THEN IF Get(event_data.ninja, FALSE) THEN <<"bomb_ninja_defuse", 0>>
         ELSE <<"bomb_defuse", 0>>
    ELSE IF event_type = "explode" THEN <<"bomb_explode", 0>>
    ELSE <<"", 0>>

\* line 762: every bomb reaction is generated as EventType.BOMB_EXPLODED
ReactToBombEvent(t, event_type, event_data) ==
    /\ CanStart(t)
    /\ frame' = [frame EXCEPT ![t] =
                    LET prompt == BombPrompt(event_type, event_data)
                        f == [Enter("react_to_bomb_event", "bomb_exploded", FALSE, prompt)
                                 EXCEPT !.event = event_type]
                    IN  IF prompt = <<"", 0>> THEN Return(f, "none") ELSE f]
    /\ ncalls' = ncalls + 1
    /\ UNCHANGED <<now, fallback_mode, last_response_times, response_variety,
                   player_stats, accepted, gsiVars, appVars>>

\* ---- react_to_donation / react_to_subscription / react_to_raid -------
ReactForced(t, op, kind) ==
    /\ CanStart(t)
    /\ frame' = [frame EXCEPT ![t] = Enter(op, kind, TRUE, <<kind, 0>>)]
    /\ ncalls' = ncalls + 1
    /\ UNCHANGED <<now, fallback_mode, last_response_times, response_variety,
                   player_stats, accepted, gsiVars, appVars>>

ReactToDonation(t) == ReactForced(t, "react_to_donation", "donation")
ReactToSubscription(t) == ReactForced(t, "react_to_subscription", "subscription")
ReactToRaid(t) == ReactForced(t, "react_to_raid", "raid")

\* ---- react_to_chat_message ------------------------------------------
\* messages by what the code tests of them
Messages == {"", "hello", "iris?", "!drop", "!iris"}
IrisMentioned(message) == message \in {"iris?", "!iris"}
IsCommand(message) == message \in {"!drop", "!iris"}

\* lines 861-885; `draw` is random.random() < 0.15
ChatShouldRespond(message, draw) ==
    IF message = "" THEN FALSE
    ELSE IF IrisMentioned(message) THEN TRUE
    ELSE IF IsCommand(message) THEN FALSE
    ELSE draw

ReactToChatMessage(t, message, draw) ==
    /\ CanStart(t)
    /\ frame' = [frame EXCEPT ![t] =
                    IF ChatShouldRespond(message, draw)
                    THEN EnterPreCheck("react_to_chat_message", "chat_message",
                                       <<"chat", IF IrisMentioned(message) THEN 1 ELSE 0>>)
                    ELSE Return(EnterPreCheck("react_to_chat_message", "chat_message",
                                              <<"chat", 0>>), "none")]
    /\ ncalls' = ncalls + 1
    /\ UNCHANGED <<now, fallback_mode, last_response_times, response_variety,
                   player_stats, accepted, gsiVars, appVars>>

\* ---- generate_random_comment ----------------------------------------
GenerateRandomComment(t) ==
    /\ CanStart(t)
    /\ frame' = [frame EXCEPT ![t] =
                    EnterPreCheck("generate_random_comment", "random_comment",
                                  <<"random", 0>>)]
    /\ ncalls' = ncalls + 1
    /\ UNCHANGED <<now, fallback_mode, last_response_times, response_variety,
                   player_stats, accepted, gsiVars, appVars>>

\* ---- the steps of a call --------------------------------------------
\* the _can_respond test an operation makes itself (lines 896, 939) and, for
\* the random comment, its 25% draw (line 943)
PreCheck(t, draw, chance) ==
    /\ frame[t].pc = "pre_check"
    /\ frame' = [frame EXCEPT ![t] =
                    IF /\ CanRespond(frame[t].kind, now, last_response_times, draw)
                       /\ (frame[t].op = "generate_random_comment" => chance)
                    THEN [frame[t] EXCEPT !.pc = EntryPc(FALSE)]
                    ELSE Return(frame[t], "none")]
    /\ UNCHANGED <<now, fallback_mode, last_response_times, response_variety,
                   player_stats, accepted, ncalls, gsiVars, appVars>>

\* generate_response, lines 428-431
CanRespondStep(t, draw) ==
    /\ frame[t].pc = "can_respond"
    /\ frame' = [frame EXCEPT ![t] =
                    LET f == [frame[t] EXCEPT
                                 !.at = now,
                                 !.last_time = LastTime(last_response_times, frame[t].kind)]
                    IN  IF CanRespond(f.kind, now, last_response_times, draw)
                        THEN [f EXCEPT !.pc = "generate"]
                        ELSE Return(f, "none")]
    /\ accepted' = IF /\ CanRespond(frame[t].kind, now, last_response_times, draw)
                      /\ RotationKind(frame[t].prompt) # ""
                   THEN [accepted EXCEPT ![RotationKind(frame[t].prompt)] = @ + 1]
                   ELSE accepted
    /\ UNCHANGED <<now, fallback_mode, last_response_times, response_variety,
                   player_stats, ncalls, gsiVars, appVars>>

\* generate_response, lines 436-476
GenerateStep(t, outcome) ==
    /\ frame[t].pc = "generate"
    /\ frame' = [frame EXCEPT ![t] =
                    LET f == [frame[t] EXCEPT
                                 !.llm = IF fallback_mode THEN "unused" ELSE outcome]
                    IN  IF Response(fallback_mode, outcome) # ""
                        THEN [f EXCEPT !.pc = "mark"]
                        ELSE Return(f, "empty")]
    /\ UNCHANGED <<now, fallback_mode, last_response_times, response_variety,
                   player_stats, accepted, ncalls, gsiVars, appVars>>

\* generate_response, lines 477-488
MarkStep(t) ==
    /\ frame[t].pc = "mark"
    /\ last_response_times' = MarkResponded(last_response_times, frame[t].kind, now)
    /\ frame' = [frame EXCEPT ![t] = Return(frame[t], "text")]
    /\ UNCHANGED <<now, fallback_mode, response_variety, player_stats, accepted,
                   ncalls, gsiVars, appVars>>

\* the clock advances
Tick ==
    /\ now < StartTime + MaxTicks
    /\ now' = now + 1
    /\ UNCHANGED <<fallback_mode, last_response_times, response_variety,
                   player_stats, frame, accepted, ncalls, gsiVars, appVars>>

\* the system clock is set back (time.time() is the wall clock)
ClockSetBack ==
    /\ now > StartTime - MaxSkew
    /\ now' = now - 1
    /\ UNCHANGED <<fallback_mode, last_response_times, response_variety,
                   player_stats, frame, accepted, ncalls, gsiVars, appVars>>

InitBrain ==
    /\ now = StartTime
    /\ fallback_mode \in BOOLEAN
    /\ last_response_times = <<>>
    /\ response_variety = [kill |-> 0, death |-> 0]
    /\ player_stats = [kills |-> 0, deaths |-> 0]
    /\ frame = [t \in Threads |-> IdleFrame]
    /\ accepted = [kill |-> 0, death |-> 0]
    /\ ncalls = 0

\* ------------------------------------------------------------------------
\* AchievementSystem (src/src/achievements.py).  The system is a record of
\* its achievements, the counters of StreamStats that decide an unlock and
\* the number of achievement_callback calls per achievement.
\* ------------------------------------------------------------------------
\* the targets of _init_achievements (lines 50-71) for the achievements
\* that record_kill, record_round_win, record_low_health_survive,
\* record_ninja_defuse and record_donation reach
Targets ==
    [first_blood |-> 1, killing_spree |-> 5, unstoppable |-> 10, ace_master |-> 1,
     clutch_king |-> 3, headhunter |-> 50, survivor |-> 1, loved |-> 5,
     whale_friend |-> 1, economical |-> 1, ninja |-> 1]

AchievementIds == DOMAIN Targets

InitAchievementSystem ==
    [ach |-> [id \in AchievementIds |-> [unlocked |-> FALSE, progress |-> 0]],
     stats |-> [total_kills |-> 0, current_kill_streak |-> 0, clutches_won |-> 0],
     calls |-> [id \in AchievementIds |-> 0]]

\* _unlock_achievement, lines 82-97
UnlockAchievement(st, ach_id) ==
    IF ach_id \notin DOMAIN st.ach THEN st
    ELSE IF st.ach[ach_id].unlocked THEN st
    ELSE [st EXCEPT !.ach[ach_id] = [unlocked |-> TRUE, progress |-> Targets[ach_id]],
                    !.calls[ach_id] = @ + 1]

\* mutant: progress is added to an unlocked achievement as well
UpdateProgress_NoUnlockedTest(st, ach_id, progress) ==
    IF ach_id \notin DOMAIN st.ach THEN st
    ELSE LET s1 == [st EXCEPT !.ach[ach_id].progress = @ + progress]
         IN  IF s1.ach[ach_id].progress >= Targets[ach_id]
             THEN UnlockAchievement(s1, ach_id)
             ELSE s1

\* _update_progress, lines 99-110
UpdateProgress(st, ach_id, progress) ==
    IF ach_id \notin DOMAIN st.ach THEN st
    ELSE IF st.ach[ach_id].unlocked THEN st
    ELSE LET s1 == [st EXCEPT !.ach[ach_id].progress = @ + progress]
         IN  IF s1.ach[ach_id].progress >= Targets[ach_id]
             THEN UnlockAchievement(s1, ach_id)
             ELSE s1

\* `if cond: then(st)`
IfThen(cond, st, then) == IF cond THEN then ELSE st

\* record_kill, lines 112-135
RecordKillOn(st, headshot, round_kills) ==
    LET s1 == [st EXCEPT !.stats.total_kills = @ + 1,
                         !.stats.current_kill_streak = @ + 1]
        s2 == IfThen(headshot, s1, UpdateProgress(s1, "headhunter", 1))
        s3 == IfThen(s2.stats.total_kills = 1, s2, UnlockAchievement(s2, "first_blood"))
        s4 == IfThen(s3.stats.current_kill_streak >= 5, s3,
                     UnlockAchievement(s3, "killing_spree"))
        s5 == IfThen(s4.stats.current_kill_streak >= 10, s4,
                     UnlockAchievement(s4, "unstoppable"))
    IN  IfThen(round_kills >= 5, s5, UnlockAchievement(s5, "ace_master"))

\* record_death, lines 137-143
RecordDeathOn(st) == [st EXCEPT !.stats.current_kill_streak = 0]

\* record_round_win, lines 149-160
RecordRoundWinOn(st, clutch, eco) ==
    LET s1 == IfThen(clutch, st,
                     UpdateProgress([st EXCEPT !.stats.clutches_won = @ + 1],
                                    "clutch_king", 1))
    IN  IfThen(eco, s1, UnlockAchievement(s1, "economical"))

\* record_low_health_survive, lines 165-167
RecordLowHealthSurviveOn(st, health) ==
    IfThen(health <= 1, st, UnlockAchievement(st, "survivor"))

\* record_ninja_defuse, lines 169-170
RecordNinjaDefuseOn(st) == UnlockAchievement(st, "ninja")

\* record_donation, lines 172-181; `big` is the amount test of the currency
RecordDonationOn(st, big) ==
    LET s1 == UpdateProgress(st, "loved", 1)
    IN  IfThen(big, s1, UnlockAchievement(s1, "whale_friend"))

\* ------------------------------------------------------------------------
\* IrisAssistant (src/main.py) after start(): the tracker's HTTP server, the
\* StreamElements client and the ticker thread run, nothing was spoken yet.
\* ------------------------------------------------------------------------
GsiThreads == {"http1", "http2"}

\* a gsi_handler execution: its position in _process_game_state, the round
\* group of its request body and the locals old_phase and old_bomb
IdleGsiFrame ==
    [pc |-> "idle", data |-> [phase |-> {}, bomb |-> {}, win_team |-> {}],
     old_phase |-> "", old_bomb |-> ""]

\* _random_comment_loop: `pc` is the statement the ticker thread is at and
\* `busy` what tts.is_busy() returned on the latest tick
InitLoop == [pc |-> "while", busy |-> FALSE]

\* everything but the responder's presence
InitAppState ==
    /\ is_running = TRUE
    /\ gsi_is_running = TRUE
    /\ tts_busy = FALSE
    /\ achievements = InitAchievementSystem.ach
    /\ ach_stats = InitAchievementSystem.stats
    /\ ach_calls = InitAchievementSystem.calls
    /\ nrecords = 0
    /\ tts_is_running = FALSE
    /\ message_queue = {}
    /\ currently_speaking = FALSE
    /\ processing_thread = "none"
    /\ processed = <<>>
    /\ nspeak = 0
    /\ tts_clock = 0
    /\ spoken = <<>>
    /\ loop = InitLoop
    /\ gsi_frame = [t \in GsiThreads |-> IdleGsiFrame]
    /\ batch = [base |-> InitTracker, snaps |-> <<>>, events |-> <<>>]

\* TTS_AVAILABLE and the engine's constructor succeeded (main.py:108-117)
InitApp == InitAppState /\ tts = TRUE /\ assembled = TRUE

Init == InitGSI /\ InitBrain /\ InitApp

\* the engine may also be missing (main.py:118-120)
InitAnyTts == InitGSI /\ InitBrain /\ InitAppState /\ tts \in BOOLEAN /\ assembled = TRUE

\* the tracker never calls into the dispatcher by itself: its specifications
\* start from one dispatcher configuration
InitGsiOnly == Init /\ fallback_mode

\* ------------------------------------------------------------------------
\* Inputs of the dispatcher operations
\* ------------------------------------------------------------------------
KillData ==
    [ace : BOOLEAN, round_kills : {1}, clutch : {FALSE}, headshot : {FALSE},
     kill_streak : {1}]

DeathData == [total_deaths : {Absent}, headshot : BOOLEAN]

RoundData == [won : BOOLEAN, round_kills : {0}, clutch : {FALSE}]

\* event_type values of react_to_bomb_event: the three it handles and the
\* three event types of the tracker
BombEventTypes ==
    {"plant", "defuse", "explode", "bomb_planted", "bomb_defused", "bomb_exploded"}

\* event_data of a bomb event: the key the dispatcher reads ('ninja') and
\* the key the tracker writes ('ninja_defuse')
BombData == [ninja : Opt(BOOLEAN), ninja_defuse : Opt(BOOLEAN)]

Steps(T) ==
    \E t \in T :
        \/ \E draw \in BOOLEAN : CanRespondStep(t, draw)
        \/ \E outcome \in LlmOutcomes : GenerateStep(t, outcome)
        \/ MarkStep(t)

HttpOps(T) ==
    \E t \in T :
        \/ \E kill_data \in KillData : ReactToKill(t, kill_data)
        \/ \E death_data \in DeathData : ReactToDeath(t, death_data)
        \/ \E round_data \in RoundData : ReactToRoundEnd(t, round_data)

StreamOps(T) ==
    \E t \in T :
        \/ ReactToDonation(t)
        \/ ReactToSubscription(t)
        \/ ReactToRaid(t)
        \/ \E message \in Messages, draw \in BOOLEAN : ReactToChatMessage(t, message, draw)

TickerOps(T) ==
    \E t \in T : GenerateRandomComment(t)

PreCheckSteps(T) ==
    \E t \in T : \E draw \in BOOLEAN, chance \in BOOLEAN : PreCheck(t, draw, chance)

\* the dispatcher driven by the HTTP ingress thread alone
NextDispatch == HttpOps({"http1"}) \/ Steps({"http1"}) \/ Tick
SpecDispatch == Init /\ [][NextDispatch]_vars

BombOps(T) ==
    \E t \in T : \E event_type \in BombEventTypes, event_data \in BombData :
        ReactToBombEvent(t, event_type, event_data)

\* the dispatcher's bomb reactions, called from one thread
NextBomb == BombOps({"http1"}) \/ Steps({"http1"}) \/ Tick
SpecBomb == Init /\ [][NextBomb]_vars

\* the dispatcher driven by the HTTP ingress thread while the clock may be
\* set back
SkewOps(T) ==
    \E t \in T :
        \/ \E kill_data \in {d \in KillData : ~d.ace} : ReactToKill(t, kill_data)
        \/ \E round_data \in {d \in RoundData : d.won} : ReactToRoundEnd(t, round_data)

NextSkew ==
    \/ SkewOps({"http1"})
    \/ Steps({"http1"})
    \/ now < StartTime + MaxSkew /\ Tick
    \/ ClockSetBack
SpecSkew == Init /\ [][NextSkew]_vars

\* the dispatcher driven by the StreamElements callback thread alone
NextStream ==
    StreamOps({"stream"}) \/ PreCheckSteps({"stream"}) \/ Steps({"stream"}) \/ Tick
SpecStream == Init /\ [][NextStream]_vars

\* the dispatcher driven by two request threads of the threaded HTTP server
\* at once, each running the event callback of its own POST
NextConc ==
    \/ ncalls < MaxConcCalls /\ HttpOps({"http1", "http2"})
    \/ Steps({"http1", "http2"})
    \/ now < StartTime + MaxConcTicks /\ Tick
SpecConc == Init /\ [][NextConc]_vars

\* ------------------------------------------------------------------------
\* Snapshots (request bodies) the specifications draw from
\* ------------------------------------------------------------------------
HealthValues == {0, 20, 25, 26, 50, 51, 60, 100}
RoundPhases == {"freezetime", "live", "over"}
BombValues == {"", "planted", "defused", "exploded"}

StructForms == {"dict", "null"}

\* player groups whose sub-structures are objects
PlayerGroups(T, H, RK, K, D) ==
    {{p} : p \in [team : T, state : {"dict"}, health : H, round_kills : RK,
                  match_stats : {"dict"}, kills : K, deaths : D,
                  weapons : {"dict"}]}

RoundGroups(P, B, W) ==
    {{r} : r \in [phase : P, bomb : B, win_team : W]}

\* map groups whose sub-structures are objects
MapGroups(P, R, C, T) ==
    {{m} : m \in [phase : P, round : R, team_ct : {"dict"}, ct_score : C,
                  team_t : {"dict"}, t_score : T]}

\* snapshots that carry the kill counter and the round-kill count
KillSnapshots ==
    [player : PlayerGroups({Absent}, {Absent}, Opt(0..MaxRoundKills),
                           Opt(0..MaxKills), {Absent}),
     round : {Absent}, map : {Absent}]

\* snapshots that carry health and the death counter
HealthSnapshots ==
    [player : PlayerGroups({Absent}, Opt(HealthValues), {Absent},
                           {Absent}, Opt(0..MaxDeaths)),
     round : {Absent}, map : {Absent}]

\* snapshots that carry the round group
RoundSnapshots ==
    [player : {Absent},
     round : RoundGroups(Opt(RoundPhases), Opt(BombValues), {Absent}),
     map : {Absent}]

\* snapshots that carry health and the bomb
NinjaSnapshots ==
    [player : {Absent} \cup
              PlayerGroups({Absent}, Opt2({100, 11, 10, 5}), {Absent}, {Absent}, {Absent}),
     round : {Absent} \cup
             RoundGroups(Opt({"live"}), Opt2({"planted", "defused"}), {Absent}),
     map : {Absent}]
    \ {[player |-> Absent, round |-> Absent, map |-> Absent]}

\* snapshots that carry the kill counter and the round phase
RoundKillSnapshots ==
    [player : {Absent} \cup
              PlayerGroups({Absent}, {Absent}, {Absent}, Opt(0..MaxKills), {Absent}),
     round : {Absent} \cup RoundGroups(Opt(RoundPhases), {Absent}, {Absent}),
     map : {Absent}]

\* snapshots that carry the player's team, the round phase and the winner
SideSnapshots ==
    [player : {Absent} \cup
              PlayerGroups(Opt2({"CT", "T"}), {Absent}, {Absent}, {Absent}, {Absent}),
     round : {Absent} \cup
             RoundGroups(Opt2({"live", "over"}), {Absent}, Opt({"", "CT", "T"})),
     map : {Absent}]

\* partial and malformed snapshots: groups may be missing, sub-structures
\* may be missing (no field of theirs is carried) or, one in a snapshot
\* group, null
PartialPlayerGroups ==
    {{p} : p \in
        {q \in [team : {Absent}, state : StructForms, health : Opt({20}),
                round_kills : {Absent}, match_stats : StructForms,
                kills : Opt({1}), deaths : {Absent}, weapons : StructForms] :
            /\ q.state = "null" =>
                   q.health = Absent /\ q.kills # Absent /\ q.weapons = "dict"
            /\ q.match_stats = "null" =>
                   q.kills = Absent /\ q.health # Absent /\ q.weapons = "dict"
                                    /\ q.state = "dict"
            /\ q.weapons = "null" => q.health # Absent /\ q.kills # Absent}}

PartialMapGroups ==
    {{m} : m \in
        {q \in [phase : {{"gameover"}}, round : {Absent}, team_ct : StructForms,
                ct_score : Opt({1}), team_t : StructForms, t_score : {Absent}] :
            /\ q.team_ct = "null" => q.ct_score = Absent /\ q.team_t = "dict"
            /\ q.team_t = "null" => q.ct_score # Absent}}

PartialSnapshots ==
    [player : {Absent} \cup PartialPlayerGroups,
     round : {Absent} \cup RoundGroups({{"over"}}, {Absent}, {Absent}),
     map : {Absent} \cup PartialMapGroups]
    \ {[player |-> Absent, round |-> Absent, map |-> Absent]}

\* snapshots of one group that carries any part of its fields
AbsentSnapshots ==
    [player : PlayerGroups({Absent}, Opt({20}), Opt({1}), Opt({1}), Opt({1})),
     round : {Absent}, map : {Absent}]
    \cup
    [player : {Absent},
     round : RoundGroups(Opt({"live"}), Opt({"planted"}), Opt({"CT"})),
     map : {Absent}]
    \cup
    [player : {Absent}, round : {Absent},
     map : MapGroups(Opt({"live"}), {Absent}, Opt({1}), Opt({1}))]

\* snapshots in which one POST changes several groups at once: the player
\* is hit, kills and dies; the round starts or ends, the bomb is planted;
\* the map moves to the next round or the match ends
OrderSnapshots ==
    [player : {Absent}
              \cup PlayerGroups({Absent}, {{100}}, {Absent}, {{0}}, {{0}})
              \cup PlayerGroups({Absent}, {{40}}, {Absent}, {{1}}, {{1}}),
     round : {Absent} \cup
             RoundGroups(Opt2({"freezetime", "over"}), Opt2({"", "planted"}), {Absent}),
     map : {Absent} \cup MapGroups({{"live"}}, {{0}}, {Absent}, {Absent})
                    \cup MapGroups({{"gameover"}}, {{1}}, {Absent}, {Absent})]
    \ {[player |-> Absent, round |-> Absent, map |-> Absent]}

\* snapshots that carry any of the three groups, each complete
FullSnapshots ==
    [player : {Absent} \cup
              PlayerGroups({{"CT"}}, {Absent}, {Absent}, Opt2(0..1), Opt2(0..1)),
     round : {Absent} \cup
             RoundGroups(Opt2({"live", "over"}), Opt2({"", "planted"}), {{"CT"}}),
     map : {Absent} \cup
           MapGroups(Opt2({"live", "gameover"}), {Absent}, {{1}}, {{0}})]
    \ {[player |-> Absent, round |-> Absent, map |-> Absent]}

\* ------------------------------------------------------------------------
\* Specifications of the tracker: the POST handler fed from one snapshot set
\* ------------------------------------------------------------------------
GsiHandler(data) == ProcessGameState(data)

Next == \E data \in FullSnapshots : GsiHandler(data)
Spec == InitGsiOnly /\ [][Next]_vars

NextKills == \E data \in KillSnapshots : GsiHandler(data)
SpecKills == InitGsiOnly /\ [][NextKills]_vars

NextHealth == \E data \in HealthSnapshots : GsiHandler(data)
SpecHealth == InitGsiOnly /\ [][NextHealth]_vars

NextRound == \E data \in RoundSnapshots : GsiHandler(data)
SpecRound == InitGsiOnly /\ [][NextRound]_vars

NextOrder == \E data \in OrderSnapshots : GsiHandler(data)
SpecOrder == InitGsiOnly /\ [][NextOrder]_vars

NextAbsent == \E data \in AbsentSnapshots : GsiHandler(data)
SpecAbsent == InitGsiOnly /\ [][NextAbsent]_vars

NextPartial == \E data \in PartialSnapshots : GsiHandler(data)
SpecPartial == InitGsiOnly /\ [][NextPartial]_vars

NextNinja == \E data \in NinjaSnapshots : GsiHandler(data)
SpecNinja == InitGsiOnly /\ [][NextNinja]_vars

NextSides == \E data \in SideSnapshots : GsiHandler(data)
SpecSides == InitGsiOnly /\ [][NextSides]_vars

NextRoundKills == \E data \in RoundKillSnapshots : GsiHandler(data)
SpecRoundKills == InitGsiOnly /\ [][NextRoundKills]_vars

\* ------------------------------------------------------------------------
\* Observers of the latest call
\* ------------------------------------------------------------------------
KillTierKinds == {"kill", "double_kill", "triple_kill", "quadra_kill", "ace"}
BombKinds == {"bomb_planted", "bomb_defused", "bomb_exploded"}
DamageKinds == {"low_health", "heavy_damage"}

\* the kinds, in emission order, of the events of `evs` whose kind is in K
KindsIn(evs, K) ==
    LET InK(e) == e.type \in K
        sel == SelectSeq(evs, InK)
    IN  [i \in 1..Len(sel) |-> sel[i].type]

\* the value a snapshot carries for a player field, or `cur` when it carries none
SnapPlayer(data, cur) ==
    IF data.player = Absent THEN [team |-> {}, state |-> "dict", health |-> {},
                                  round_kills |-> {}, match_stats |-> "dict",
                                  kills |-> {}, deaths |-> {}, weapons |-> "dict"]
    ELSE Get(data.player, <<>>)

SnapMap(data) ==
    IF data.map = Absent THEN [phase |-> {}, round |-> {}, team_ct |-> "dict",
                               ct_score |-> {}, team_t |-> "dict", t_score |-> {}]
    ELSE Get(data.map, <<>>)

SnapRound(data) ==
    IF data.round = Absent THEN [phase |-> {}, bomb |-> {}, win_team |-> {}]
    ELSE Get(data.round, <<>>)

\* ------------------------------------------------------------------------
\* C1: bomb events are edge-triggered. On every call the bomb events emitted
\* are exactly: one bomb_<v> event when the call changes round.bomb into
\* v in {planted, defused, exploded}, and none when round.bomb keeps its
\* value (so "" -> planted -> planted -> defused emits bomb_planted, nothing,
\* bomb_defused).
\* ------------------------------------------------------------------------
BombEventFor(v) ==
    IF v = "planted" THEN <<"bomb_planted">>
    ELSE IF v = "defused" THEN <<"bomb_defused">>
    ELSE IF v = "exploded" THEN <<"bomb_exploded">>
    ELSE <<>>

C1_BombStep ==
    KindsIn(events', BombKinds) =
        IF round'.bomb # round.bomb THEN BombEventFor(round'.bomb) ELSE <<>>

C1_BombEdgeTriggered == [][C1_BombStep]_vars

\* the unchanged intermediate snapshot: "planted" is posted again, no event
C1_Witness ==
    /\ repeated
    /\ SnapRound(previous_state).bomb = {"planted"}
    /\ round.bomb = "planted"
    /\ events = <<>>

\* ------------------------------------------------------------------------
\* C2: idempotence. A call that receives the snapshot of the call before it
\* emits no event.
\* ------------------------------------------------------------------------
C2_Idempotent == repeated => events = <<>>

\* ------------------------------------------------------------------------
\* C5: the kind of a kill-tier event is decided by the round-kill count
\* alone: 1 -> kill, 2 -> double_kill, 3 -> triple_kill, 4 -> quadra_kill,
\* 5 and more -> ace, whatever the size of the kill-counter increase.
\* ------------------------------------------------------------------------
TierOfRoundKills(rk) ==
    CASE rk = 1 -> "kill"
      [] rk = 2 -> "double_kill"
      [] rk = 3 -> "triple_kill"
      [] rk = 4 -> "quadra_kill"
      [] rk >= 5 -> "ace"

C5_KillTierByRoundKills ==
    \A i \in DOMAIN events :
        (events[i].type \in KillTierKinds /\ player.round_kills >= 1)
            => events[i].type = TierOfRoundKills(player.round_kills)

\* an ace for an increase of one, and a plain kill for an increase of two
C5_Witness ==
    \E i \in DOMAIN events :
        /\ events[i].type = "ace"
        /\ events[i].data.kills_this_action = 1
        /\ player.round_kills = 5

C5_WitnessKill ==
    \E i \in DOMAIN events :
        /\ events[i].type = "kill"
        /\ events[i].data.kills_this_action = 2
        /\ player.round_kills = 1

\* ------------------------------------------------------------------------
\* C6: a snapshot whose kill counter exceeds the stored one emits exactly
\* one kill-tier event; a snapshot whose kill counter is equal, lower or
\* absent emits none.
\* ------------------------------------------------------------------------
C6_KillStep ==
    LET snap_kills == Get(SnapPlayer(previous_state', player).kills, player.kills)
        n == Len(KindsIn(events', KillTierKinds))
    IN  IF snap_kills > player.kills THEN n = 1 ELSE n = 0

C6_OneKillEventPerDelta == [][C6_KillStep]_vars

\* one event for an increase of three
C6_Witness ==
    /\ Len(KindsIn(events, KillTierKinds)) = 1
    /\ \E i \in DOMAIN events : /\ events[i].type \in KillTierKinds
                                /\ events[i].data.kills_this_action = 3

\* ------------------------------------------------------------------------
\* C10: a snapshot that lowers health from h0 to h1 > 0 emits low_health if
\* h1 <= 25, otherwise heavy_damage if h0 - h1 >= 50, otherwise neither; a
\* drop to 0 or a rise emits neither; never both for one snapshot.
\* ------------------------------------------------------------------------
C10_HealthStep ==
    LET h0 == player.health
        h1 == player'.health
    IN  KindsIn(events', DamageKinds) =
            IF h1 < h0 /\ h1 > 0
            THEN IF h1 <= 25 THEN <<"low_health">>
                 ELSE IF h0 - h1 >= 50 THEN <<"heavy_damage">>
                 ELSE <<>>
            ELSE <<>>

C10_HealthDropClassification == [][C10_HealthStep]_vars

\* 100 -> 20: low_health alone, although the drop of 80 is a heavy one
C10_Witness ==
    /\ KindsIn(events, DamageKinds) = <<"low_health">>
    /\ \E i \in DOMAIN events : /\ events[i].type = "low_health"
                                /\ events[i].data.current_health = 20
                                /\ events[i].data.damage = 80

\* ------------------------------------------------------------------------
\* Observers of the dispatcher
\* ------------------------------------------------------------------------
\* the call of thread t has returned
Returned(t) == frame[t].pc = "idle" /\ frame[t].op # ""

\* time between the kind's previous reaction and the call's cooldown test
Elapsed(f) == f.at - f.last_time

CooledOps == {"react_to_kill", "react_to_death", "react_to_round_end"}
ForcedOps == {"react_to_donation", "react_to_subscription", "react_to_raid"}

\* the cooldowns the dispatcher is configured with, as the documentation quotes them
ConfiguredCooldown(kind) ==
    CASE kind = "kill" -> 3
      [] kind = "death" -> 5
      [] kind = "round_end" -> 2
      [] OTHER -> 10

C4_Linearized ==
    \A t1, t2 \in Threads :
        LET f1 == frame[t1]
            f2 == frame[t2]
        IN  ~ /\ t1 # t2
              /\ Returned(t1) /\ Returned(t2)
              /\ f1.kind = f2.kind
              /\ ~f1.force /\ ~f2.force
              /\ f1.result = "text" /\ f2.result = "text"
              /\ f1.at - f2.at < ConfiguredCooldown(f1.kind)
              /\ f2.at - f1.at < ConfiguredCooldown(f1.kind)

C8_RotationInOrder ==
    \A t \in Threads :
        LET f == frame[t]
            kind == RotationKind(f.prompt)
        IN  (Returned(t) /\ f.result \in {"text", "empty"} /\ kind # "") =>
                f.prompt[2] = (accepted[kind] - 1) % (IF kind = "kill" THEN 5 ELSE 4)

\* ------------------------------------------------------------------------
\* C9: a react_to_kill / react_to_death call that the cooldown rejects
\* leaves last_response_times and the rotation counters as it found them.
\* ------------------------------------------------------------------------
C9_RejectedLeavesStore ==
    \A t \in Threads :
        LET f == frame[t]
        IN  (Returned(t) /\ f.op \in {"react_to_kill", "react_to_death"}
                         /\ f.result = "none") =>
                f.entry_store = <<response_variety, last_response_times>>

\* ------------------------------------------------------------------------
\* C11: low_health is edge-triggered. A call emits low_health only when it
\* takes health from above 25 to a value of 25 or less (and above 0); while
\* health stays at or below 25 no further low_health is emitted.
\* ------------------------------------------------------------------------
C11_LowHealthStep ==
    (\E i \in DOMAIN events' : events'[i].type = "low_health") =>
        /\ player.health > LowHealthThreshold
        /\ player'.health <= LowHealthThreshold
        /\ player'.health > 0

C11_LowHealthEdge == [][C11_LowHealthStep]_vars

\* ------------------------------------------------------------------------
\* C12: match_end is emitted exactly once on the call that takes map.phase
\* into "gameover" from another phase and on no other call, and its `won`
\* attribute is true exactly when the player's team (CT or T) has the
\* strictly higher score.
\* ------------------------------------------------------------------------
C12_MatchEndStep ==
    /\ Len(KindsIn(events', {"match_end"})) =
           IF map'.phase = "gameover" /\ map.phase # "gameover" THEN 1 ELSE 0
    /\ \A i \in DOMAIN events' :
           events'[i].type = "match_end" =>
               events'[i].data.won =
                   \/ (player'.team = "CT" /\ map'.ct_score > map'.t_score)
                   \/ (player'.team = "T" /\ map'.t_score > map'.ct_score)

C12_MatchEndOnTransition == [][C12_MatchEndStep]_vars

\* ------------------------------------------------------------------------
\* C13: a call that increases the death counter emits exactly one death
\* event and leaves kill_streak at 0, also when the same snapshot increases
\* the kill counter; a call that does not increase it emits no death event.
\* ------------------------------------------------------------------------
C13_DeathStep ==
    LET n == Len(KindsIn(events', {"death"}))
    IN  IF player'.deaths > player.deaths
        THEN n = 1 /\ kill_streak' = 0
        ELSE n = 0

C13_DeathResetsStreak == [][C13_DeathStep]_vars

\* one snapshot brought a kill and the death: kill event with streak 1, then
\* the death event, and the streak is 0 afterwards
C13_Witness ==
    /\ Len(events) >= 2
    /\ events[1].type \in KillTierKinds
    /\ events[1].data.kill_streak >= 1
    /\ events[2].type = "death"
    /\ kill_streak = 0

\* ------------------------------------------------------------------------
\* C14: round_start is emitted exactly on a call that takes round.phase into
\* "freezetime" from another phase; that call leaves kill_streak at 0,
\* clutch_situation false and round_start_kills equal to the kill counter.
\* A call that keeps the phase at "freezetime" emits no round_start.
\* ------------------------------------------------------------------------
C14_RoundStartStep ==
    LET n == Len(KindsIn(events', {"round_start"}))
    IN  IF round'.phase = "freezetime" /\ round.phase # "freezetime"
        THEN /\ n = 1
             /\ kill_streak' = 0
             /\ clutch_situation' = FALSE
             /\ round_start_kills' = player'.kills
        ELSE n = 0

C14_RoundStart == [][C14_RoundStartStep]_vars

\* the snapshot that starts the round also brings kills: the kill event
\* raises the streak, round_start resets it and records the new counter
C14_Witness ==
    /\ Len(events) = 2
    /\ events[1].type \in KillTierKinds
    /\ events[1].data.kill_streak >= 2
    /\ events[2].type = "round_start"
    /\ kill_streak = 0
    /\ round_start_kills = player.kills
    /\ player.kills >= 2

\* ------------------------------------------------------------------------
\* C15 as stated: the round_end event carries round_kills equal to the kill
\* counter minus the kill counter recorded at the most recent round_start,
\* and that value is the number of kills observed between the two events
\* (a count, so never negative).
\* ------------------------------------------------------------------------
C15_RoundKillsStepAsStated ==
    \A i \in DOMAIN events' :
        events'[i].type = "round_end" =>
            /\ events'[i].data.round_kills = player'.kills - round_start_kills
            /\ events'[i].data.round_kills >= 0

C15_RoundKillsAsStated == [][C15_RoundKillsStepAsStated]_vars

\* C15 amended: the round_end event carries round_kills equal to the kill
\* counter minus round_start_kills, and round_start_kills is the kill counter
\* recorded by the most recent round_start (0 before the first): it changes
\* only on a call that emits round_start, to the kill counter of that call.
\* The value is negative once the kill counter has dropped below the
\* recorded one.
C15_RoundKillsStep ==
    /\ \A i \in DOMAIN events' :
           events'[i].type = "round_end" =>
               /\ events'[i].data.round_kills = player'.kills - round_start_kills
               /\ round_start_kills' = round_start_kills
    /\ round_start_kills' # round_start_kills =>
           /\ Len(KindsIn(events', {"round_start"})) = 1
           /\ round_start_kills' = player'.kills

C15_RoundKills == [][C15_RoundKillsStep]_vars

\* a round that started at one kill ends at three: round_kills is 2
C15_Witness ==
    \E i \in DOMAIN events :
        /\ events[i].type = "round_end"
        /\ round_start_kills = 1
        /\ player.kills = 3
        /\ events[i].data.round_kills = 2

\* ------------------------------------------------------------------------
\* C16: the `won` attribute of round_end is true when win_team is the
\* player's team, false when win_team names the other team, and false
\* whenever win_team is empty.
\* ------------------------------------------------------------------------
C16_RoundEndWon ==
    \A i \in DOMAIN events :
        events[i].type = "round_end" =>
            /\ round.win_team = "" => events[i].data.won = FALSE
            /\ (round.win_team # "" /\ round.win_team = player.team)
                   => events[i].data.won = TRUE
            /\ (round.win_team # "" /\ round.win_team # player.team)
                   => events[i].data.won = FALSE

\* the round is over with no winner named and no team known: not won
C16_Witness ==
    \E i \in DOMAIN events :
        /\ events[i].type = "round_end"
        /\ round.win_team = ""
        /\ player.team = ""
        /\ events[i].data.won = FALSE

\* CT wins the round of a CT player: won
C16_WitnessWon ==
    \E i \in DOMAIN events :
        /\ events[i].type = "round_end"
        /\ round.win_team = "CT"
        /\ player.team = "CT"
        /\ events[i].data.won = TRUE

\* ------------------------------------------------------------------------
\* C17: a malformed or partial snapshot never makes _process_game_state
\* raise, and a call emits no event of a group its snapshot does not carry.
\* ------------------------------------------------------------------------
PlayerKinds == KillTierKinds \cup DamageKinds \cup {"death"}
RoundKinds == BombKinds \cup {"round_start", "round_end"}

C17_PartialSnapshotSafe ==
    /\ ~raised
    /\ request.player = Absent => KindsIn(events, PlayerKinds) = <<>>
    /\ request.round = Absent => KindsIn(events, RoundKinds) = <<>>
    /\ request.map = Absent => KindsIn(events, {"match_end"}) = <<>>

\* ------------------------------------------------------------------------
\* C18: absence means unchanged. A tracked field (health, round_kills,
\* kills, deaths, round.phase, round.bomb, win_team, map.phase, the scores)
\* that the snapshot of a call does not carry has after the call the value
\* it had before; none is reset to its default.
\* ------------------------------------------------------------------------
C18_AbsentStep ==
    LET p == SnapPlayer(request', player)
        r == SnapRound(request')
        m == SnapMap(request')
    IN  /\ p.health = Absent => player'.health = player.health
        /\ p.round_kills = Absent => player'.round_kills = player.round_kills
        /\ p.kills = Absent => player'.kills = player.kills
        /\ p.deaths = Absent => player'.deaths = player.deaths
        /\ r.phase = Absent => round'.phase = round.phase
        /\ r.bomb = Absent => round'.bomb = round.bomb
        /\ r.win_team = Absent => round'.win_team = round.win_team
        /\ m.phase = Absent => map'.phase = map.phase
        /\ m.ct_score = Absent => map'.ct_score = map.ct_score
        /\ m.t_score = Absent => map'.t_score = map.t_score

C18_AbsenceMeansUnchanged == [][C18_AbsentStep]_vars

\* every field has left its default, and the latest snapshot carried only
\* the bomb
C18_Witness ==
    /\ request.player = Absent /\ request.map = Absent
    /\ SnapRound(request).phase = Absent
    /\ SnapRound(request).win_team = Absent
    /\ SnapRound(request).bomb = {"planted"}
    /\ round = [phase |-> "live", bomb |-> "planted", win_team |-> "CT"]
    /\ player.health = 20 /\ player.kills = 1 /\ player.deaths = 1
    /\ player.round_kills = 1
    /\ map.phase = "live" /\ map.ct_score = 1 /\ map.t_score = 1

\* ------------------------------------------------------------------------
\* C19: every event of a call is computed from the state as the whole
\* snapshot of that call leaves it: the `round`, `ct_score` and `t_score`
\* attributes of the events equal the tracker's map.round, map.ct_score and
\* map.t_score after the call.
\* ------------------------------------------------------------------------
C19_EventsFromUpdatedState ==
    \A i \in DOMAIN events :
        LET d == events[i].data
        IN  /\ "round" \in DOMAIN d => d.round = map.round
            /\ "ct_score" \in DOMAIN d => d.ct_score = map.ct_score
            /\ "t_score" \in DOMAIN d => d.t_score = map.t_score

\* ------------------------------------------------------------------------
\* C20: the event channel preserves order and delivers each event once.
\* The events event_callback receives during a call are the events the call
\* emitted, each once and in emission order, and that order is: kill-tier,
\* death, damage, round_start, round_end, bomb_*, match_end.
\* ------------------------------------------------------------------------
EmissionRank(type) ==
    CASE type \in KillTierKinds -> 1
      [] type = "death" -> 2
      [] type \in DamageKinds -> 3
      [] type = "round_start" -> 4
      [] type = "round_end" -> 5
      [] type \in BombKinds -> 6
      [] type = "match_end" -> 7

C20_ChannelOrdered ==
    /\ delivered = events
    /\ \A i, j \in DOMAIN delivered :
           i < j => EmissionRank(delivered[i].type) < EmissionRank(delivered[j].type)

\* one snapshot produces six events, delivered in emission order
C20_Witness ==
    /\ Len(delivered) = 6
    /\ [i \in 1..6 |-> delivered[i].type] =
           <<"kill", "death", "heavy_damage", "round_end", "bomb_planted", "match_end">>

\* ------------------------------------------------------------------------
\* The Snapshot Ingress: app.run (cs2_gsi.py:315) serves each POST on a
\* thread of its own (Flask's development server is threaded unless told
\* otherwise) and gsi_handler takes no lock, so two executions of
\* _process_game_state can be in progress at once.  The steps below are the
\* statements of the round block for a body that carries the round group
\* only; a thread can be preempted between any two of them, and it blocks
\* inside a step's _emit_event for as long as the event callback (the
\* dispatcher call with its LLM request) takes.
\* ------------------------------------------------------------------------
MaxBatch == 2

\* the tracker as the running handlers see it; `events` are the events
\* emitted since no handler was running
ConcTracker ==
    [Tracker EXCEPT !.events = batch.events, !.delivered = batch.events]

GsiIdle == \A t \in GsiThreads : gsi_frame[t].pc = "idle"

\* the variables a statement of the round block can assign
GsiAssignFrom(st) ==
    /\ round' = st.round
    /\ kill_streak' = st.kill_streak
    /\ round_start_kills' = st.round_start_kills
    /\ clutch_situation' = st.clutch_situation
    /\ batch' = [batch EXCEPT !.events = st.events]
    /\ UNCHANGED <<player, map, events, delivered, repeated, request, raised, caught,
                   events_history, emitted,
                   is_running, gsi_is_running, achVars, ttsVars, tts, tts_busy, spoken, loop, brainVars>>

\* lines 73-78 and 94-140: the body is parsed, the round group is read and
\* the old phase and bomb are kept in locals
GsiEnter(t, rd) ==
    /\ gsi_frame[t].pc = "idle"
    /\ ~GsiIdle => Len(batch.snaps) < MaxBatch
    /\ gsi_frame' = [gsi_frame EXCEPT ![t] =
                        [pc |-> "assign", data |-> rd,
                         old_phase |-> round.phase, old_bomb |-> round.bomb]]
    /\ batch' = IF GsiIdle
                THEN [base |-> Tracker, snaps |-> <<rd>>, events |-> <<>>]
                ELSE [batch EXCEPT !.snaps = Append(@, rd)]
    /\ UNCHANGED <<gsiVars, brainVars, is_running, gsi_is_running, achVars, ttsVars, tts, tts_busy,
                   spoken, loop>>

\* lines 141-143
GsiAssign(t) ==
    /\ gsi_frame[t].pc = "assign"
    /\ round' = [phase |-> Get(gsi_frame[t].data.phase, round.phase),
                 bomb |-> Get(gsi_frame[t].data.bomb, round.bomb),
                 win_team |-> Get(gsi_frame[t].data.win_team, round.win_team)]
    /\ gsi_frame' = [gsi_frame EXCEPT ![t].pc = "round_start"]
    /\ UNCHANGED <<player, map, previous_state, kill_streak, round_start_kills,
                   clutch_situation, events, delivered, repeated, request, raised, caught,
                   events_history, emitted,
                   brainVars, is_running, gsi_is_running, achVars, ttsVars, tts, tts_busy, spoken, loop,
                   batch>>

\* lines 145-146
GsiRoundStart(t) ==
    /\ gsi_frame[t].pc = "round_start"
    /\ GsiAssignFrom(RoundStartCheck(ConcTracker, gsi_frame[t].old_phase))
    /\ gsi_frame' = [gsi_frame EXCEPT ![t].pc = "round_end"]
    /\ UNCHANGED previous_state

\* lines 148-149
GsiRoundEnd(t) ==
    /\ gsi_frame[t].pc = "round_end"
    /\ GsiAssignFrom(RoundEndCheck(ConcTracker, gsi_frame[t].old_phase))
    /\ gsi_frame' = [gsi_frame EXCEPT ![t].pc = "bomb_planted"]
    /\ UNCHANGED previous_state

\* lines 151-152
GsiBombPlanted(t) ==
    /\ gsi_frame[t].pc = "bomb_planted"
    /\ GsiAssignFrom(BombPlantedCheck(ConcTracker, gsi_frame[t].old_bomb))
    /\ gsi_frame' = [gsi_frame EXCEPT ![t].pc = "bomb_defused"]
    /\ UNCHANGED previous_state

\* lines 154-155
GsiBombDefused(t) ==
    /\ gsi_frame[t].pc = "bomb_defused"
    /\ GsiAssignFrom(BombDefusedCheck(ConcTracker, gsi_frame[t].old_bomb))
    /\ gsi_frame' = [gsi_frame EXCEPT ![t].pc = "bomb_exploded"]
    /\ UNCHANGED previous_state

\* lines 157-158, then line 177 and the answer of gsi_handler
GsiBombExploded(t) ==
    /\ gsi_frame[t].pc = "bomb_exploded"
    /\ GsiAssignFrom(BombExplodedCheck(ConcTracker, gsi_frame[t].old_bomb))
    /\ previous_state' = [player |-> Absent, round |-> {gsi_frame[t].data},
                          map |-> Absent]
    /\ gsi_frame' = [gsi_frame EXCEPT ![t] = [@ EXCEPT !.pc = "idle"]]

\* request bodies of the concurrent POSTs: the round ends, the bomb is
\* planted or defused
IngressRoundGroups ==
    [phase : Opt({"over"}), bomb : Opt({"planted", "defused"}), win_team : {Absent}]
    \ {[phase |-> {}, bomb |-> {}, win_team |-> {}]}

NextIngress ==
    \E t \in GsiThreads :
        \/ \E rd \in IngressRoundGroups : GsiEnter(t, rd)
        \/ GsiAssign(t)
        \/ GsiRoundStart(t)
        \/ GsiRoundEnd(t)
        \/ GsiBombPlanted(t)
        \/ GsiBombDefused(t)
        \/ GsiBombExploded(t)
SpecIngress == InitGsiOnly /\ [][NextIngress]_vars

\* the events that handling the POSTs `idx` of the batch one after another,
\* in any order, emits from tracker state `st`
RECURSIVE SequentialEvents(_, _)
SequentialEvents(st, idx) ==
    IF idx = {} THEN {st.events}
    ELSE UNION {SequentialEvents(ProcessRound(st, {batch.snaps[i]}), idx \ {i}) :
                    i \in idx}

\* the same events, whatever their order: as many of each kind
SameEvents(e1, e2) ==
    \A k \in RoundKinds : Len(KindsIn(e1, {k})) = Len(KindsIn(e2, {k}))

\* ------------------------------------------------------------------------
\* C21: the Snapshot Ingress serializes the handler. No two executions of
\* _process_game_state overlap, so whenever no handler is running the events
\* emitted for the POSTs handled since the last such moment are the events
\* that one of the sequential orders of these POSTs emits.
\* ------------------------------------------------------------------------
C21_Serialized ==
    GsiIdle =>
        \E out \in SequentialEvents(batch.base, 1..Len(batch.snaps)) :
            SameEvents(batch.events, out)

\* ------------------------------------------------------------------------
\* C22: a chat message that mentions the assistant's name bypasses the
\* probabilistic chat gate. A react_to_chat_message call for such a message
\* that finds the chat_message cooldown (8 s) elapsed is not turned down,
\* whatever the random draws are (the draw of _can_respond succeeds with
\* probability 0.1, 0.2 or 0.3 by chat_activity, so it can fail in every
\* tier).
\* ------------------------------------------------------------------------
C22_MentionBypassesGate ==
    \A t \in Threads :
        LET f == frame[t]
        IN  (/\ Returned(t)
             /\ f.op = "react_to_chat_message"
             /\ f.prompt = <<"chat", 1>>
             /\ Elapsed(f) >= Cooldowns.chat_message)
                => f.result # "none"

\* ------------------------------------------------------------------------
\* C23: clock skew is handled defensively. A non-forced call whose cooldown
\* test reads a clock value earlier than the kind's stored last reaction
\* time (negative elapsed time) is rejected: it returns no reaction.
\* ------------------------------------------------------------------------
C23_NegativeElapsedRejected ==
    \A t \in Threads :
        LET f == frame[t]
        IN  (Returned(t) /\ ~f.force /\ f.op \in CooledOps /\ f.at < f.last_time)
                => f.result = "none"

\* a round_end call two seconds or more before the latest round_end
\* reaction: its elapsed time is negative and as large as the cooldown
C23_Witness ==
    \E t \in Threads :
        /\ Returned(t)
        /\ frame[t].op = "react_to_round_end"
        /\ frame[t].last_time - frame[t].at >= Cooldowns.round_end
        /\ frame[t].result = "none"

\* ------------------------------------------------------------------------
\* C24: cooldown state is keyed by the event's own kind. A reaction to a
\* bomb event of kind K (plant -> bomb_planted, defuse -> bomb_defused,
\* explode -> bomb_exploded) leaves the last reaction time of every other
\* kind as it was: a bomb_planted reaction does not start the cooldown of
\* bomb_defused or bomb_exploded.
\* ------------------------------------------------------------------------
BombKindOf(event_type) ==
    CASE event_type = "plant" -> "bomb_planted"
      [] event_type = "defuse" -> "bomb_defused"
      [] event_type = "explode" -> "bomb_exploded"
      [] OTHER -> event_type

C24_CooldownKeyedByKind ==
    \A t \in Threads :
        LET f == frame[t]
        IN  (Returned(t) /\ f.op = "react_to_bomb_event" /\ f.result = "text") =>
                \A k \in BombKinds \ {BombKindOf(f.event)} :
                    LastTime(last_response_times, k) = LastTime(f.entry_store[2], k)

\* ------------------------------------------------------------------------
\* IrisAssistant (src/main.py): the callbacks that take the tracker's and the
\* stream client's events to the dispatcher and its reactions to tts.speak.
\* The tracker calls _on_cs2_event from _emit_event, on the request thread;
\* here the callback runs for the events of the latest POST once the handler
\* has assigned the snapshot (the player block, whose counters the callback
\* reads, is complete before the first event is emitted), and it is taken
\* for any event of that POST.  Achievements and the visual interface are
\* left out.
\* ------------------------------------------------------------------------
\* event.data.get(key, default)
DataGet(data, key, default) == IF key \in DOMAIN data THEN data[key] ELSE default

\* the keys react_to_kill reads of a kill event's data; 'headshot' is
\* round_killhs > 0, a counter the tracker model does not carry
KillDataOf(data, headshot) ==
    [ace |-> DataGet(data, "ace", FALSE),
     round_kills |-> DataGet(data, "round_kills", 1),
     clutch |-> DataGet(data, "clutch", FALSE),
     headshot |-> headshot,
     kill_streak |-> DataGet(data, "kill_streak", 1)]

\* the keys react_to_death reads of a death event's data
DeathDataOf(data) ==
    [total_deaths |-> IF "total_deaths" \in DOMAIN data THEN {data.total_deaths} ELSE {},
     headshot |-> DataGet(data, "headshot", FALSE)]

\* the keys react_to_round_end reads of a round_end event's data
RoundDataOf(data) ==
    [won |-> DataGet(data, "won", FALSE),
     round_kills |-> DataGet(data, "round_kills", 0),
     clutch |-> DataGet(data, "clutch", FALSE)]

\* the keys of a bomb event's data that matter to react_to_bomb_event
BombDataOf(data) ==
    [ninja |-> IF "ninja" \in DOMAIN data THEN {data.ninja} ELSE {},
     ninja_defuse |-> IF "ninja_defuse" \in DOMAIN data THEN {data.ninja_defuse} ELSE {}]

\* tts.speak(response, ...) for the call of frame f
Speak(f) ==
    Append(spoken, [op |-> f.op, event |-> f.event, emotion |-> f.emotion, at |-> now])

\* the `emotion` local of _on_cs2_event when it reaches line 391
Cs2Emotion(event) ==
    CASE event.type = "ace" -> "excited"
      [] event.type \in {"kill", "double_kill", "triple_kill", "quadra_kill"} ->
             IF DataGet(event.data, "round_kills", 1) >= 3 THEN "excited" ELSE "happy"
      [] event.type = "death" -> "supportive"
      [] event.type = "round_end" ->
             IF DataGet(event.data, "won", FALSE) THEN "excited" ELSE "supportive"
      [] event.type = "low_health" -> "tense"
      [] event.type \in BombKinds ->
             IF event.type = "bomb_planted" THEN "tense" ELSE "excited"
      [] event.type = "match_end" ->
             IF DataGet(event.data, "won", FALSE) THEN "excited" ELSE "supportive"
      [] OTHER -> "neutral"

\* the `emotion` local of _on_stream_event when it reaches line 451
StreamEmotion(event_type) ==
    CASE event_type \in {"donation", "subscription", "raid"} -> "excited"
      [] event_type = "follow" -> "happy"
      [] OTHER -> "neutral"

\* update_context(player_stats=self.cs2_gsi.get_player_stats(), ...), lines
\* 324-330: the dispatcher's counters are set to the tracker's
SyncedStats == [kills |-> player.kills, deaths |-> player.deaths]

\* a call of the callback that involves no dispatcher operation
NoDispatcherCall(op, event_type, result) ==
    Return([IdleFrame EXCEPT !.op = op, !.event = event_type,
                             !.entry_store = <<response_variety, last_response_times>>],
           result)

UnchangedByCallback ==
    UNCHANGED <<now, fallback_mode, last_response_times, accepted, gsiVars,
                is_running, gsi_is_running, achVars, ttsVars, tts, tts_busy, loop, gsi_frame, batch>>

HandledCs2Kinds ==
    KillTierKinds \cup BombKinds \cup {"death", "round_end", "low_health", "match_end"}

\* _on_cs2_event(event), lines 310-392, up to the dispatcher's cooldown test
OnCs2Event(t, event, headshot) ==
    /\ CanStart(t)
    /\ ncalls' = ncalls + 1
    /\ UnchangedByCallback
    /\ \/ /\ event.type \in KillTierKinds
          /\ LET kill_data == KillDataOf(event.data, headshot)
             IN  /\ response_variety' =
                        IF KillIsOrdinary(kill_data)
                        THEN [response_variety EXCEPT !.kill = @ + 1]
                        ELSE response_variety
                 /\ player_stats' = [SyncedStats EXCEPT !.kills = @ + 1]
                 /\ frame' = [frame EXCEPT ![t] =
                                 [Enter("react_to_kill", "kill", FALSE,
                                        KillPrompt(kill_data, response_variety.kill))
                                     EXCEPT !.event = event.type,
                                            !.emotion = Cs2Emotion(event)]]
                 /\ UNCHANGED spoken
       \/ /\ event.type = "death"
          /\ player_stats' = [SyncedStats EXCEPT !.deaths = @ + 1]
          /\ response_variety' = [response_variety EXCEPT !.death = @ + 1]
          /\ frame' = [frame EXCEPT ![t] =
                          [Enter("react_to_death", "death", FALSE,
                                 DeathPrompt(DeathDataOf(event.data), SyncedStats,
                                             response_variety.death))
                              EXCEPT !.event = event.type,
                                     !.emotion = Cs2Emotion(event)]]
          /\ UNCHANGED spoken
       \/ /\ event.type = "round_end"
          /\ player_stats' = SyncedStats
          /\ frame' = [frame EXCEPT ![t] =
                          [Enter("react_to_round_end", "round_end", FALSE,
                                 RoundEndPrompt(RoundDataOf(event.data)))
                              EXCEPT !.event = event.type,
                                     !.emotion = Cs2Emotion(event)]]
          /\ UNCHANGED <<response_variety, spoken>>
       \/ /\ event.type \in BombKinds
          /\ player_stats' = SyncedStats
          /\ frame' = [frame EXCEPT ![t] =
                          LET prompt == BombPrompt(event.type, BombDataOf(event.data))
                              f == [Enter("react_to_bomb_event", "bomb_exploded", FALSE, prompt)
                                       EXCEPT !.event = event.type,
                                              !.emotion = Cs2Emotion(event)]
                          IN  IF prompt = <<"", 0>> THEN Return(f, "none") ELSE f]
          /\ UNCHANGED <<response_variety, spoken>>
       \/ /\ event.type \in {"low_health", "match_end"}
          /\ player_stats' = SyncedStats
          /\ frame' = [frame EXCEPT ![t] =
                          [NoDispatcherCall("_on_cs2_event", event.type, "text")
                              EXCEPT !.emotion = Cs2Emotion(event)]]
          /\ spoken' = IF tts THEN Speak([op |-> "_on_cs2_event", event |-> event.type,
                                   emotion |-> Cs2Emotion(event)])
                        ELSE spoken
          /\ UNCHANGED response_variety
       \/ /\ event.type \notin HandledCs2Kinds
          /\ player_stats' = SyncedStats
          /\ frame' = [frame EXCEPT ![t] =
                          [NoDispatcherCall("_on_cs2_event", event.type, "none")
                              EXCEPT !.emotion = Cs2Emotion(event)]]
          /\ UNCHANGED <<response_variety, spoken>>

\* the mark of a call made by a callback of main.py, its return and the
\* callback's `if response and self.tts: self.tts.speak(response, ...)`
MarkAndSpeak(t) ==
    /\ frame[t].pc = "mark"
    /\ last_response_times' = MarkResponded(last_response_times, frame[t].kind, now)
    /\ frame' = [frame EXCEPT ![t] = Return(frame[t], "text")]
    /\ spoken' = IF tts THEN Speak(frame[t]) ELSE spoken
    /\ UNCHANGED <<now, fallback_mode, response_variety, player_stats, accepted,
                   ncalls, gsiVars, is_running, gsi_is_running, achVars, ttsVars, tts, tts_busy, loop,
                   gsi_frame, batch>>

\* the steps of a call made by a callback of main.py
CallbackSteps(T) ==
    \E t \in T :
        \/ \E draw \in BOOLEAN : CanRespondStep(t, draw)
        \/ \E outcome \in LlmOutcomes : GenerateStep(t, outcome)
        \/ MarkAndSpeak(t)

\* the events of the latest POST, for which _emit_event calls the callback
DeliveredEvents == {delivered[i] : i \in DOMAIN delivered}

\* snapshots behind the events of the callback: kills up to an ace, a death,
\* damage, the round's phases, the bomb with the player nearly dead or not,
\* the end of the match
AppSnapshots ==
    [player : PlayerGroups({Absent}, Opt2({40, 5}), {{5}}, {{1}}, Opt2({0, 1})),
     round : {Absent}, map : {Absent}]
    \cup
    [player : {Absent},
     round : RoundGroups(Opt2({"freezetime", "over"}),
                         Opt2({"planted", "defused", "exploded"}), {Absent}),
     map : {Absent}]
    \cup
    [player : {Absent}, round : {Absent},
     map : MapGroups({{"gameover"}}, {Absent}, {Absent}, {Absent})]

\* the tracker and the dispatcher on the request thread: a POST is handled,
\* the callback runs for its events
NextCs2 ==
    \/ /\ CanStart("http1")
       /\ \E data \in AppSnapshots : GsiHandler(data)
    \/ \E event \in DeliveredEvents, headshot \in BOOLEAN :
           OnCs2Event("http1", event, headshot)
    \/ CallbackSteps({"http1"})
SpecCs2 == Init /\ [][NextCs2]_vars

\* ------------------------------------------------------------------------
\* C25: every accepted event produces one reaction. When _on_cs2_event is
\* called with a bomb_planted, bomb_defused or bomb_exploded event of the
\* tracker and the cooldown of the event's kind has elapsed, the call ends
\* with exactly one text handed to tts.speak, the reaction to that event.
\* ------------------------------------------------------------------------
C25_BombReactionStep ==
    \A t \in Threads :
        LET f == frame'[t]
        IN  (/\ f # frame[t]
             /\ f.pc = "idle"
             /\ f.event \in BombKinds
             /\ f.at - LastTime(f.entry_store[2], f.event) >= Cooldown(f.event))
                => spoken' = Append(spoken, [op |-> f.op, event |-> f.event,
                                             at |-> now'])

C25_OneReactionPerBombEvent == [][C25_BombReactionStep]_vars

\* ------------------------------------------------------------------------
\* C27: high-signal sub-cases get the dedicated prompt. When _on_cs2_event
\* is called with an event of the tracker, an ace makes the dispatcher take
\* the ace prompt, a round_end with clutch_win true the clutch prompt and a
\* bomb_defused with ninja_defuse true the ninja-defuse prompt, and taking a
\* dedicated prompt leaves the rotation counters as they were.
\* ------------------------------------------------------------------------
\* the latest POST emitted an event of this type with this attribute true
Emitted(type, attribute) ==
    \E e \in DeliveredEvents : e.type = type /\ e.data[attribute]

DedicatedPrompt(f, prompt) ==
    /\ f.prompt = <<prompt, 0>>
    /\ response_variety' = response_variety

C27_DedicatedPromptStep ==
    \A t \in Threads :
        LET f == frame'[t]
        IN  (frame[t].pc = "idle" /\ f # frame[t]) =>
                /\ f.event = "ace" => DedicatedPrompt(f, "kill_ace")
                /\ (f.event = "round_end" /\ Emitted("round_end", "clutch_win"))
                       => DedicatedPrompt(f, "round_clutch")
                /\ (f.event = "bomb_defused" /\ Emitted("bomb_defused", "ninja_defuse"))
                       => DedicatedPrompt(f, "bomb_ninja_defuse")

C27_DedicatedPrompts == [][C27_DedicatedPromptStep]_vars

\* ------------------------------------------------------------------------
\* C26: a defuse is reported as one bomb_defused event. Its ninja_defuse
\* attribute is true when the player's health is at or below the threshold
\* (10) and false when it is above; the ninja case adds no event: the call's
\* bomb events are the single bomb_defused, and every other event of the
\* call is one of the tracker's ordinary kinds.
\* ------------------------------------------------------------------------
C26_NinjaStep ==
    /\ KindsIn(events', BombKinds) =
           IF round'.bomb # round.bomb THEN BombEventFor(round'.bomb) ELSE <<>>
    /\ \A i \in DOMAIN events' :
           /\ events'[i].type \in PlayerKinds \cup RoundKinds \cup {"match_end"}
           /\ events'[i].type = "bomb_defused" =>
                  events'[i].data.ninja_defuse = (player'.health <= 10)

C26_NinjaDefuseIsAttribute == [][C26_NinjaStep]_vars

\* a defuse at exactly 10 health, in the snapshot that brought health down
\* to it: low_health and one bomb_defused, tagged
C26_Witness ==
    /\ player.health = 10
    /\ KindsIn(events, DamageKinds \cup BombKinds) = <<"low_health", "bomb_defused">>
    /\ events[Len(events)].data.ninja_defuse = TRUE

\* a defuse at 11 health: one bomb_defused, not tagged
C26_WitnessPlain ==
    /\ player.health = 11
    /\ KindsIn(events, BombKinds) = <<"bomb_defused">>
    /\ events[Len(events)].data.ninja_defuse = FALSE

\* ------------------------------------------------------------------------
\* The ambient ticker, IrisAssistant._random_comment_loop (main.py:470-496),
\* on the thread "ticker".  The interval slept is configuration
\* (random_comments_interval); the model sleeps short intervals so that
\* consecutive ticks fall on both sides of the random_comment cooldown.
\* ------------------------------------------------------------------------
MaxSleepTime == 50
SleepIntervals == {12, 13}

\* mutant: the ticker does not ask the responder
TickerMayComment_IgnoreBusy(busy) == TRUE

\* line 487: `if self.tts and not self.tts.is_busy()`
TickerMayComment(busy) == ~busy

\* line 475: `while self.is_running`
LoopTest ==
    /\ loop.pc = "while"
    /\ loop' = [loop EXCEPT !.pc = IF is_running THEN "sleep" ELSE "exited"]
    /\ UNCHANGED <<gsiVars, brainVars, is_running, gsi_is_running, achVars, ttsVars, tts, tts_busy,
                   spoken, gsi_frame, batch>>

\* line 477: time.sleep(interval)
LoopSleep(interval) ==
    /\ loop.pc = "sleep"
    /\ now + interval <= StartTime + MaxSleepTime
    /\ now' = now + interval
    /\ loop' = [loop EXCEPT !.pc = "woken"]
    /\ UNCHANGED <<gsiVars, fallback_mode, last_response_times, response_variety,
                   player_stats, frame, accepted, ncalls, is_running,
                   gsi_is_running, achVars, ttsVars, tts, tts_busy, spoken, gsi_frame, batch>>

\* lines 479-480: `if not self.is_running: break`
LoopWoken ==
    /\ loop.pc = "woken"
    /\ loop' = [loop EXCEPT !.pc = IF is_running THEN "tick" ELSE "exited"]
    /\ UNCHANGED <<gsiVars, brainVars, is_running, gsi_is_running, achVars, ttsVars, tts, tts_busy,
                   spoken, gsi_frame, batch>>

\* lines 487-488: the responder is asked and, if it is idle,
\* generate_random_comment is entered
LoopTick ==
    /\ loop.pc = "tick"
    /\ frame["ticker"].pc = "idle"
    /\ IF tts /\ TickerMayComment(tts_busy)
       THEN /\ loop' = [pc |-> "call", busy |-> tts_busy]
            /\ frame' = [frame EXCEPT !["ticker"] =
                            EnterPreCheck("generate_random_comment", "random_comment",
                                          <<"random", 0>>)]
            /\ ncalls' = ncalls + 1
       ELSE /\ loop' = [pc |-> "while", busy |-> tts_busy]
            /\ UNCHANGED <<frame, ncalls>>
    /\ UNCHANGED <<gsiVars, now, fallback_mode, last_response_times,
                   response_variety, player_stats, accepted, is_running,
                   gsi_is_running, achVars, ttsVars, tts, tts_busy, spoken, gsi_frame, batch>>

\* lines 489-490 are part of the call's last step; the loop starts over
LoopCallDone ==
    /\ loop.pc = "call"
    /\ frame["ticker"].pc = "idle"
    /\ loop' = [loop EXCEPT !.pc = "while"]
    /\ UNCHANGED <<gsiVars, brainVars, is_running, gsi_is_running, achVars, ttsVars, tts, tts_busy,
                   spoken, gsi_frame, batch>>

\* what is_busy() returns changes between two ticks: speak calls of any
\* thread put messages in the queue, a running _process_queue takes them out
TtsChange ==
    /\ tts_busy' = ~tts_busy
    /\ UNCHANGED <<gsiVars, brainVars, is_running, gsi_is_running, achVars, ttsVars, tts, spoken, loop,
                   gsi_frame, batch>>

TickerLoop ==
    \/ LoopTest
    \/ \E interval \in SleepIntervals : LoopSleep(interval)
    \/ LoopWoken
    \/ LoopTick
    \/ LoopCallDone
    \/ PreCheckSteps({"ticker"})
    \/ CallbackSteps({"ticker"})

NextTicker == TickerLoop \/ TtsChange
SpecTicker == Init /\ [][NextTicker]_vars

\* the ambient comments handed to the responder so far
AmbientComments(s) ==
    LET IsAmbient(e) == e.op = "generate_random_comment"
    IN  SelectSeq(s, IsAmbient)

\* ------------------------------------------------------------------------
\* C28: the ambient ticker submits a comment only on a tick at which the
\* responder reported itself idle, and through the dispatcher's cooldown:
\* two ambient comments are never less than 25 s apart, and a tick at which
\* the responder is busy submits nothing, starts no dispatcher call and
\* leaves the cooldown state as it was.
\* ------------------------------------------------------------------------
C28_TickerStep ==
    /\ spoken' # spoken => loop.pc = "call" /\ loop.busy = FALSE
    /\ (loop.pc = "tick" /\ loop'.pc # "tick" /\ tts_busy) =>
           /\ spoken' = spoken
           /\ frame' = frame
           /\ last_response_times' = last_response_times
           /\ response_variety' = response_variety
    /\ LET c == AmbientComments(spoken')
       IN  \A i, j \in DOMAIN c : i < j => c[j].at - c[i].at >= 25

Stop ==
    /\ is_running
    /\ is_running' = FALSE
    /\ gsi_is_running' = FALSE
    /\ UNCHANGED <<gsiVars, brainVars, achVars, ttsVars, tts, tts_busy, spoken, loop, gsi_frame, batch>>

\* snapshots that carry the player's health
ShutdownSnapshots ==
    [player : PlayerGroups({Absent}, {{100}, {20}}, {Absent}, {Absent}, {Absent}),
     round : {Absent}, map : {Absent}]

NextShutdown ==
    \/ TickerLoop
    \/ TtsChange
    \/ Stop
    \/ \E data \in ShutdownSnapshots : GsiHandler(data)

SpecShutdown == Init /\ [][NextShutdown]_vars

\* what the tracker keeps between POSTs
TrackedState ==
    <<player, round, map, kill_streak, round_start_kills, clutch_situation,
      previous_state>>

\* ------------------------------------------------------------------------
\* C29: once stop() has run, the ticker makes no dispatcher call from a
\* wake-up after the stop and its loop ends at that wake-up or at the loop
\* head, and a POST changes no tracked state and emits no event; the steps
\* of a dispatcher call in flight are not held back.
\* ------------------------------------------------------------------------
C29_StoppedStep ==
    (~is_running /\ ~gsi_is_running) =>
        /\ loop.pc \in {"while", "woken"} => loop'.pc \in {loop.pc, "exited"}
        /\ ncalls' # ncalls => loop.pc = "tick"
        /\ TrackedState' = TrackedState
        /\ events' # events => events' = <<>>

C29_ShutdownStopsNewWork == [][C29_StoppedStep]_vars

\* the ticker's part of C29 alone
C29_TickerStops ==
    [][(~is_running) =>
          /\ loop.pc \in {"while", "woken"} => loop'.pc \in {loop.pc, "exited"}
          /\ ncalls' # ncalls => loop.pc = "tick"]_vars

\* ------------------------------------------------------------------------
\* Events the callbacks of main.py have no branch for, and the direct
\* dialogue of the dispatcher
\* ------------------------------------------------------------------------
\* _on_cs2_event for an event type outside its if/elif chain (lines 338-388)
OnCs2Unhandled(t, event) ==
    /\ event.type \notin HandledCs2Kinds
    /\ CanStart(t)
    /\ ncalls' = ncalls + 1
    /\ UnchangedByCallback
    /\ player_stats' = SyncedStats
    /\ frame' = [frame EXCEPT ![t] =
                    [NoDispatcherCall("_on_cs2_event", event.type, "none")
                        EXCEPT !.emotion = Cs2Emotion(event)]]
    /\ UNCHANGED <<response_variety, spoken>>

\* the event types of the StreamElements client
StreamKinds ==
    {"donation", "subscription", "raid", "chat_message", "follow", "cheer", "host"}

HandledStreamKinds == {"donation", "subscription", "raid", "chat_message", "follow"}

\* _on_stream_event(event), lines 401-452, up to the dispatcher's first step
OnStreamEvent(t, event_type, message, draw) ==
    /\ CanStart(t)
    /\ ncalls' = ncalls + 1
    /\ UnchangedByCallback
    /\ UNCHANGED <<response_variety, player_stats>>
    /\ \/ /\ event_type \in {"donation", "subscription", "raid"}
          /\ frame' = [frame EXCEPT ![t] =
                          [Enter("react_to_" \o event_type, event_type, TRUE,
                                 <<event_type, 0>>)
                              EXCEPT !.event = event_type,
                                     !.emotion = StreamEmotion(event_type)]]
          /\ UNCHANGED spoken
       \/ /\ event_type = "chat_message"
          /\ frame' = [frame EXCEPT ![t] =
                          LET f == [EnterPreCheck("react_to_chat_message", "chat_message",
                                        <<"chat", IF IrisMentioned(message) THEN 1 ELSE 0>>)
                                       EXCEPT !.event = event_type,
                                              !.emotion = StreamEmotion(event_type)]
                          IN  IF ChatShouldRespond(message, draw) THEN f
                              ELSE Return(f, "none")]
          /\ UNCHANGED spoken
       \/ /\ event_type = "follow"
          /\ frame' = [frame EXCEPT ![t] =
                          [NoDispatcherCall("_on_stream_event", event_type, "text")
                              EXCEPT !.emotion = StreamEmotion(event_type)]]
          /\ spoken' = IF tts THEN Speak([op |-> "_on_stream_event", event |-> event_type,
                                   emotion |-> StreamEmotion(event_type)])
                        ELSE spoken
       \/ /\ event_type \notin HandledStreamKinds
          /\ frame' = [frame EXCEPT ![t] =
                          [NoDispatcherCall("_on_stream_event", event_type, "none")
                              EXCEPT !.emotion = StreamEmotion(event_type)]]
          /\ UNCHANGED spoken

\* what the streamer says to chat_with_user, by what lines 919-927 test
UserMessages == {"hello", "how are you", "why?", "nice shot"}

\* the event type chosen by lines 919-927; "": EventType.GENERAL, which the
\* enumeration (lines 42-58) does not have, so the attribute lookup raises
UserMessageKind(user_message) ==
    CASE user_message = "hello" -> "chat_message"
      [] user_message = "how are you" -> "chat_message"
      [] user_message = "why?" -> "command"
      [] OTHER -> ""

\* chat_with_user(user_message), lines 903-929
ChatWithUser(t, user_message) ==
    /\ CanStart(t)
    /\ ncalls' = ncalls + 1
    /\ frame' = [frame EXCEPT ![t] =
                    LET kind == UserMessageKind(user_message)
                        f == Enter("chat_with_user", kind, TRUE, <<"user", 0>>)
                    IN  IF kind = "" THEN Return(f, "raise") ELSE f]
    /\ UNCHANGED <<now, fallback_mode, last_response_times, response_variety,
                   player_stats, accepted, gsiVars, appVars>>

\* snapshots behind heavy_damage and round_start
UnknownSnapshots ==
    [player : PlayerGroups({Absent}, {{100}, {40}}, {Absent}, {Absent}, {Absent}),
     round : {Absent}, map : {Absent}]
    \cup
    [player : {Absent},
     round : RoundGroups({{"freezetime"}, {"live"}}, {Absent}, {Absent}),
     map : {Absent}]

\* the tracker's callback on the request thread, the stream client's
\* callback on its thread and the streamer's dialogue on the voice thread
NextUnknown ==
    \/ /\ CanStart("http1")
       /\ \E data \in UnknownSnapshots : GsiHandler(data)
    \/ \E event \in DeliveredEvents : OnCs2Unhandled("http1", event)
    \/ \E event_type \in StreamKinds, message \in {"hello", "!iris"}, draw \in BOOLEAN :
           OnStreamEvent("stream", event_type, message, draw)
    \/ PreCheckSteps({"stream"})
    \/ CallbackSteps({"stream"})
    \/ \E user_message \in UserMessages : ChatWithUser("voice", user_message)
    \/ \E outcome \in LlmOutcomes : GenerateStep("voice", outcome)
    \/ MarkStep("voice")

SpecUnknown == Init /\ [][NextUnknown]_vars

\* a callback has just returned from an event type it has no branch for
DroppedUnknown(t) ==
    /\ frame'[t] # frame[t]
    /\ frame'[t].op \in {"_on_cs2_event", "_on_stream_event"}
    /\ frame'[t].event \notin HandledCs2Kinds \cup HandledStreamKinds

\* the callbacks' part of C30 alone
C30_UnknownKindsDropped ==
    [][\A t \in Threads :
          DroppedUnknown(t) =>
              /\ frame'[t].pc = "idle"
              /\ frame'[t].result = "none"
              /\ spoken' = spoken
              /\ last_response_times' = last_response_times]_vars

\* ------------------------------------------------------------------------
\* C30: an event kind without handling is dropped without failure. A
\* callback called with an event type outside its handled set returns
\* normally, hands nothing to the responder and leaves the cooldown store
\* unchanged, and no dispatcher operation, chat_with_user included, raises
\* because of the event kind it chose.
\* ------------------------------------------------------------------------
C30_UnknownStep ==
    \A t \in Threads :
        /\ frame'[t].result # "raise"
        /\ DroppedUnknown(t) =>
               /\ frame'[t].pc = "idle"
               /\ frame'[t].result = "none"
               /\ spoken' = spoken
               /\ last_response_times' = last_response_times

C30_UnknownKindDropped == [][C30_UnknownStep]_vars

\* ------------------------------------------------------------------------
\* Kill and round_end events through the callback, with the responder
\* present or missing
\* ------------------------------------------------------------------------
\* a kill and a won round, as the tracker emits them
SinkEvents ==
    {[type |-> "kill",
      data |-> [kills_this_action |-> 1, round_kills |-> 1, total_kills |-> 1,
                kill_streak |-> 1, clutch |-> FALSE, ace |-> FALSE]],
     [type |-> "round_end",
      data |-> [round |-> 1, win_team |-> "CT", player_team |-> "CT", won |-> TRUE,
                round_kills |-> 1, clutch_win |-> FALSE]]}

NextSink ==
    \/ \E event \in SinkEvents, headshot \in BOOLEAN :
           OnCs2Event("http1", event, headshot)
    \/ CallbackSteps({"http1"})
    \/ Tick
SpecSink == InitAnyTts /\ [][NextSink]_vars

\* thread t's call has just ended after passing the cooldown test
EndedEligible(t) ==
    /\ frame[t].pc \in {"generate", "mark"}
    /\ frame'[t].pc = "idle"

\* the responder failed the call: the LLM request raised, or there is no
\* engine to speak the response the call produced
ResponderFailed(f) == f.llm = "raise" \/ (~tts /\ f.result = "text")

\* ------------------------------------------------------------------------
\* C31: a failed responder still counts as an attempt. When a call that
\* passed the cooldown test ends after its LLM request raised, or ends with a
\* response while there is no TTS engine, last_response_times holds the
\* current time for the call's kind, and _can_respond rejects that kind at
\* once.
\* ------------------------------------------------------------------------
C31_AttemptStep ==
    \A t \in Threads :
        (EndedEligible(t) /\ ResponderFailed(frame'[t])) =>
            /\ frame'[t].kind \in DOMAIN last_response_times'
            /\ last_response_times'[frame'[t].kind] = now
            /\ \A draw \in BOOLEAN :
                   ~CanRespond(frame'[t].kind, now', last_response_times', draw)

MaxWait == 24
WaitSteps == {5, 6}

UntabledKinds == {"donation", "match_end", "command"}

\* generate_response(prompt, event_type), lines 413-431
GenerateResponse(t, event_type) ==
    /\ CanStart(t)
    /\ frame' = [frame EXCEPT ![t] =
                    Enter("generate_response", event_type, FALSE, <<event_type, 0>>)]
    /\ ncalls' = ncalls + 1
    /\ UNCHANGED <<now, fallback_mode, last_response_times, response_variety,
                   player_stats, accepted, gsiVars, appVars>>

\* time passes between two calls
Wait(seconds) ==
    /\ now + seconds <= StartTime + MaxWait
    /\ now' = now + seconds
    /\ UNCHANGED <<fallback_mode, last_response_times, response_variety,
                   player_stats, frame, accepted, ncalls, gsiVars, appVars>>

NextGeneral ==
    \/ \E event_type \in UntabledKinds : GenerateResponse("stream", event_type)
    \/ Steps({"stream"})
    \/ \E seconds \in WaitSteps : Wait(seconds)
SpecGeneral == Init /\ [][NextGeneral]_vars

\* the 'general' entry of the cooldown table
GeneralCooldown == Cooldowns.general

\* ------------------------------------------------------------------------
\* C32: for a kind without an entry of its own in the cooldown table the
\* eligibility test uses the table's 'general' duration, 12 s: a non-forced
\* call less than 12 s after the kind's previous reaction yields no
\* reaction, and one at least 12 s after it is not rejected.
\* ------------------------------------------------------------------------
C32_GeneralFallback ==
    \A t \in Threads :
        LET f == frame[t]
        IN  (/\ Returned(t)
             /\ f.op = "generate_response"
             /\ f.kind \notin DOMAIN Cooldowns
             /\ f.last_time > 0) =>
                /\ Elapsed(f) < GeneralCooldown => f.result = "none"
                /\ Elapsed(f) >= GeneralCooldown => f.result # "none"

\* ------------------------------------------------------------------------
\* The emotion tag of a reaction
\* ------------------------------------------------------------------------
\* events of the tracker's shapes, with the attributes the tag may depend on
EmotionEvents ==
    {[type |-> KillTier(d.round_kills), data |-> d] :
        d \in [round_kills : {1, 3, 5}, kill_streak : {1}, clutch : BOOLEAN]}
    \cup
    {[type |-> "round_end", data |-> d] :
        d \in [won : BOOLEAN, clutch_win : BOOLEAN, round_kills : {1}]}
    \cup
    {[type |-> "match_end", data |-> d] : d \in [won : BOOLEAN]}
    \cup
    {[type |-> k, data |-> [round |-> 1]] :
        k \in {"death", "bomb_planted", "bomb_defused", "round_start"}}
    \cup
    {[type |-> "low_health", data |-> [damage |-> 80, current_health |-> 20]]}

NextEmotion ==
    \/ \E event \in EmotionEvents, headshot \in BOOLEAN :
           OnCs2Event("http1", event, headshot)
    \/ CallbackSteps({"http1"})
    \/ \E event_type \in StreamKinds :
           OnStreamEvent("stream", event_type, "!iris", TRUE)
    \/ PreCheckSteps({"stream"})
    \/ CallbackSteps({"stream"})
SpecEmotion == Init /\ [][NextEmotion]_vars

\* the event is an explicit "excited" trigger: an ace or a clutch
ExcitedTrigger(event) ==
    \/ event.type = "ace"
    \/ DataGet(event.data, "ace", FALSE)
    \/ DataGet(event.data, "clutch", FALSE)
    \/ DataGet(event.data, "clutch_win", FALSE)

\* ------------------------------------------------------------------------
\* C33: the emotion tag follows a fixed precedence. Whenever _on_cs2_event
\* runs for an event that is an explicit excited trigger (an ace, a clutch)
\* the tag is 'excited' whatever the outcome; for any other event that
\* carries an outcome the tag is 'happy' or 'excited' if it was won and
\* 'supportive' if it was lost; a raid or a donation is tagged 'excited'.
\* ------------------------------------------------------------------------
C33_EmotionStep ==
    /\ \A event \in EmotionEvents, headshot \in BOOLEAN :
           OnCs2Event("http1", event, headshot) =>
               LET emotion == frame'["http1"].emotion
               IN  IF ExcitedTrigger(event) THEN emotion = "excited"
                   ELSE IF "won" \in DOMAIN event.data
                   THEN IF event.data.won THEN emotion \in {"happy", "excited"}
                        ELSE emotion = "supportive"
                   ELSE TRUE
    /\ \A t \in Threads :
           (frame'[t] # frame[t] /\ frame'[t].event \in {"raid", "donation"}) =>
               frame'[t].emotion = "excited"

C33_OutcomeTags ==
    [][\A event \in EmotionEvents, headshot \in BOOLEAN :
          (OnCs2Event("http1", event, headshot) /\ "won" \in DOMAIN event.data) =>
              frame'["http1"].emotion = IF event.data.won THEN "excited" ELSE "supportive"]_vars

\* ------------------------------------------------------------------------
\* The cooldown store under cooled and forced operations of two threads
\* ------------------------------------------------------------------------
StoreOps ==
    \/ \E kill_data \in {k \in KillData : ~k.ace} : ReactToKill("http1", kill_data)
    \/ ReactToDonation("stream")
    \/ ReactToChatMessage("stream", "!iris", TRUE)

NextStore ==
    \/ StoreOps
    \/ PreCheckSteps({"stream"})
    \/ Steps({"http1", "stream"})
    \/ now < StartTime + MaxConcTicks /\ Tick
SpecStore == Init /\ [][NextStore]_vars

\* thread t's call produces its reaction in this step
Reacts(t) == frame[t].pc = "mark" /\ frame'[t].result = "text"

\* ------------------------------------------------------------------------
\* C34: cooldown entries are created on first fire, updated on every fire
\* and never deleted. Whenever a call produces a reaction, forced or not,
\* last_response_times holds the current time for its kind afterwards; an
\* entry changes only with a reaction of its kind; no entry is removed and,
\* the clock not going back, none decreases.
\* ------------------------------------------------------------------------
C34_StoreStep ==
    /\ DOMAIN last_response_times \subseteq DOMAIN last_response_times'
    /\ \A k \in DOMAIN last_response_times :
           /\ last_response_times'[k] >= last_response_times[k]
           /\ last_response_times'[k] # last_response_times[k] =>
                  \E t \in Threads : Reacts(t) /\ frame[t].kind = k
    /\ \A k \in DOMAIN last_response_times' \ DOMAIN last_response_times :
           \E t \in Threads : Reacts(t) /\ frame[t].kind = k
    /\ \A t \in Threads :
           Reacts(t) =>
               /\ frame[t].kind \in DOMAIN last_response_times'
               /\ last_response_times'[frame[t].kind] = now

C34_EntriesKept == [][C34_StoreStep]_vars

\* a kill entry created, then updated by a later kill reaction, next to the
\* entry of a forced donation
C34_Witness ==
    /\ {"kill", "donation"} \subseteq DOMAIN last_response_times
    /\ last_response_times["kill"] = now
    /\ last_response_times["donation"] < now
    /\ Returned("http1")
    /\ frame["http1"].kind = "kill"
    /\ frame["http1"].result = "text"
    /\ frame["http1"].last_time > 0

\* ------------------------------------------------------------------------
\* The tracker with a callback that raises for some event types
\* ------------------------------------------------------------------------
\* a POST handled while event_callback raises for the event types `fails`
GsiHandlerCallbackFails(data, fails) ==
    /\ ProcessGameStateFrom([Tracker EXCEPT !.fails = fails], data)
    /\ UNCHANGED <<events_history, emitted>>

\* snapshots with a kill, the end of the round and the end of the match
CallbackSnapshots ==
    [player : {Absent} \cup PlayerGroups({Absent}, {Absent}, Opt2({0, 1}), Opt2({0, 1}),
                                         {Absent}),
     round : {Absent} \cup RoundGroups(Opt2({"live", "over"}), {Absent}, {Absent}),
     map : {Absent} \cup MapGroups(Opt2({"live", "gameover"}), {Absent}, {Absent}, {Absent})]

FailingKinds == {"kill", "round_end"}

NextCallback ==
    \E data \in CallbackSnapshots, fails \in SUBSET FailingKinds :
        GsiHandlerCallbackFails(data, fails)
SpecCallback == InitGsiOnly /\ [][NextCallback]_vars

\* _process_game_state(data) on tracker state st, as a function
ProcessAll(st, data) ==
    ProcessMap(ProcessRound(ProcessPlayer(st, data.player), data.round), data.map)

\* ------------------------------------------------------------------------
\* C35: callback failures are isolated from the tracker. Whatever events the
\* callback raises an Exception for, a POST leaves the tracker as it would
\* with a callback that never raises: the same events recorded in the same
\* order, each handed to the callback, the same player, round and map
\* state, previous_state assigned, and no exception leaving
\* _process_game_state.
\* ------------------------------------------------------------------------
C35_IsolatedStep ==
    LET quiet == ProcessAll(Tracker, request')
    IN  /\ events' = quiet.events
        /\ delivered' = quiet.events
        /\ player' = quiet.player
        /\ round' = quiet.round
        /\ map' = quiet.map
        /\ kill_streak' = quiet.kill_streak
        /\ round_start_kills' = quiet.round_start_kills
        /\ raised' = FALSE
        /\ previous_state' = request'

C35_CallbackIsolated == [][C35_IsolatedStep]_vars

\* the callback raised for the first event of a POST; the later ones were
\* emitted and the round and map groups were applied
C35_Witness ==
    /\ Len(events) = 3
    /\ caught = <<events[1].type>>
    /\ events[1].type = "kill"
    /\ events[3].type = "match_end"
    /\ round.phase = "over"
    /\ map.phase = "gameover"
    /\ previous_state = request

\* ------------------------------------------------------------------------
\* C36: the clutch flag is never set. In every reachable tracker state
\* clutch_situation is false, every kill-tier event of the latest POST
\* carries clutch = false and every round_end event clutch_win = false.
\* ------------------------------------------------------------------------
C36_ClutchNeverSet ==
    /\ clutch_situation = FALSE
    /\ \A i \in DOMAIN events :
           /\ events[i].type \in KillTierKinds => events[i].data.clutch = FALSE
           /\ events[i].type = "round_end" => events[i].data.clutch_win = FALSE

\* a round that ends with kills made in it, after a kill event
C36_Witness ==
    /\ \E i \in DOMAIN events :
           events[i].type = "round_end" /\ events[i].data.round_kills > 0
    /\ \E i \in DOMAIN events : events[i].type \in KillTierKinds
    /\ kill_streak > 0

\* ------------------------------------------------------------------------
\* The tracker's event history over a long game
\* ------------------------------------------------------------------------
MaxEmitted == 104

\* two snapshots that follow each other round after round: the round ends
\* with the bomb planted, the next round is live with the bomb defused
HistorySnapshots ==
    [player : {Absent},
     round : {{[phase |-> {"over"}, bomb |-> {"planted"}, win_team |-> Absent]},
              {[phase |-> {"live"}, bomb |-> {"defused"}, win_team |-> Absent]}},
     map : {Absent}]

NextHistory ==
    \E data \in HistorySnapshots :
        /\ emitted < MaxEmitted
        /\ GsiHandlerHistory(data)
SpecHistory == InitGsiOnly /\ [][NextHistory]_vars

\* ------------------------------------------------------------------------
\* C37: the event history is bounded and ordered. events_history never holds
\* more than 100 events, and it holds exactly the latest emitted events, in
\* emission order: all of them while fewer than 100 were emitted, the last
\* 100 afterwards, ending with the events of the latest POST.
\* ------------------------------------------------------------------------
C37_HistoryBounded ==
    LET n == Len(events_history)
    IN  /\ n <= 100
        /\ n = IF emitted < 100 THEN emitted ELSE 100
        /\ \A i \in 1..n : events_history[i].seq = emitted - n + i
        /\ Len(events) <= n =>
               \A j \in DOMAIN events :
                   events_history[n - Len(events) + j].type = events[j].type

\* more than 100 events were emitted; the latest POST emitted two of them
\* into a full history
C37_Witness ==
    /\ emitted > 101
    /\ Len(events_history) = 100
    /\ Len(events) = 2
    /\ events_history[1].seq > 1

\* ------------------------------------------------------------------------
\* The record_* calls of the achievement system, one after another
\* ------------------------------------------------------------------------
MaxRecords == 7

AchievementSystem == [ach |-> achievements, stats |-> ach_stats, calls |-> ach_calls]

\* a record_* call has run and left the system as `st`
Recorded(st) ==
    /\ nrecords < MaxRecords
    /\ nrecords' = nrecords + 1
    /\ achievements' = st.ach
    /\ ach_stats' = st.stats
    /\ ach_calls' = st.calls
    /\ UNCHANGED <<gsiVars, brainVars, is_running, gsi_is_running, ttsVars, tts,
                   tts_busy, spoken, loop, gsi_frame, batch>>

RecordKill(headshot, round_kills) ==
    Recorded(RecordKillOn(AchievementSystem, headshot, round_kills))
RecordDeath == Recorded(RecordDeathOn(AchievementSystem))
RecordRoundWin(clutch, eco) == Recorded(RecordRoundWinOn(AchievementSystem, clutch, eco))
RecordLowHealthSurvive(health) ==
    Recorded(RecordLowHealthSurviveOn(AchievementSystem, health))
RecordNinjaDefuse == Recorded(RecordNinjaDefuseOn(AchievementSystem))
RecordDonation(big) == Recorded(RecordDonationOn(AchievementSystem, big))

NextAchievements ==
    \/ \E headshot \in BOOLEAN, round_kills \in {1, 5} : RecordKill(headshot, round_kills)
    \/ RecordDeath
    \/ \E clutch \in BOOLEAN, eco \in BOOLEAN : RecordRoundWin(clutch, eco)
    \/ \E health \in {1, 20} : RecordLowHealthSurvive(health)
    \/ RecordNinjaDefuse
    \/ \E big \in BOOLEAN : RecordDonation(big)
SpecAchievements == Init /\ [][NextAchievements]_vars

\* ------------------------------------------------------------------------
\* C38: achievements unlock at most once and stay unlocked. Over any
\* sequence of record_* calls achievement_callback is called at most once
\* per achievement, an unlocked achievement stays unlocked, and after every
\* call each achievement has progress <= target, with progress = target
\* if it is unlocked.
\* ------------------------------------------------------------------------
C38_AchievementStep ==
    \A id \in AchievementIds :
        /\ ach_calls'[id] <= 1
        /\ ach_calls'[id] = 1 <=> achievements'[id].unlocked
        /\ achievements[id].unlocked => achievements'[id].unlocked
        /\ achievements'[id].progress <= Targets[id]
        /\ achievements'[id].unlocked => achievements'[id].progress = Targets[id]

C38_UnlockOnce == [][C38_AchievementStep]_vars

\* clutch_king was unlocked by its third clutch and a fourth was recorded;
\* first_blood was unlocked by the first kill and another kill followed
C38_Witness ==
    /\ achievements["clutch_king"].unlocked
    /\ ach_stats.clutches_won = 4
    /\ ach_calls["clutch_king"] = 1
    /\ achievements["first_blood"].unlocked
    /\ ach_stats.total_kills = 2
    /\ achievements["headhunter"].progress = 2

\* ------------------------------------------------------------------------
\* TTSEngine (src/src/tts_engine.py): the message queue and the thread that
\* drains it.  IrisAssistant builds the engine (main.py:107-120) and calls
\* its speak, is_busy and stop; TTSEngine.start is called by the engine
\* module's own harness (tts_engine.py:418) and by nothing in main.py.
\* ------------------------------------------------------------------------
MaxSpeak == 4
Texts == {"", "a", "b"}

\* Python's order of the texts
TextRank == [a |-> 1, b |-> 2]

\* the order of the queue's tuples (message_priority, counter, (text, emotion))
ItemLess(i, j) ==
    \/ i.priority < j.priority
    \/ i.priority = j.priority /\ i.counter < j.counter
    \/ i.priority = j.priority /\ i.counter = j.counter
           /\ TextRank[i.text] < TextRank[j.text]

\* what PriorityQueue.get may return
QueueHead == {i \in message_queue : \A j \in message_queue : ~ItemLess(j, i)}

\* is_busy, lines 311-318
IsBusy == currently_speaking \/ message_queue # {}

\* the rest of the program does not move during an engine step; tts_busy is
\* what is_busy() returns after it
EngineStep ==
    /\ tts_busy' = (currently_speaking' \/ message_queue' # {})
    /\ UNCHANGED <<gsiVars, brainVars, is_running, gsi_is_running, achVars, assembled,
                   tts, spoken, loop, gsi_frame, batch>>

\* start, lines 320-336: IrisAssistant never calls it
TTSEngineStart ==
    /\ ~assembled
    /\ ~tts_is_running
    /\ tts_is_running' = TRUE
    /\ processing_thread' = "get"
    /\ UNCHANGED <<message_queue, currently_speaking, processed, nspeak, tts_clock>>
    /\ EngineStep

\* speak, lines 277-309; `elapsed` is how far time.time() * 1000 moved since
\* the call before
TTSEngineSpeak(text, priority, elapsed) ==
    /\ tts
    /\ nspeak < MaxSpeak
    /\ nspeak' = nspeak + 1
    /\ tts_clock' = tts_clock + elapsed
    /\ message_queue' =
           IF text = "" THEN message_queue
           ELSE message_queue \cup
                    {[priority |-> IF priority THEN 0 ELSE 1, counter |-> tts_clock',
                      text |-> text, seq |-> nspeak']}
    /\ UNCHANGED <<tts_is_running, currently_speaking, processing_thread, processed>>
    /\ EngineStep

\* _random_comment_loop, lines 487-490: the comment is spoken if the engine
\* is idle
TickerSpeak(text, elapsed) ==
    /\ TickerMayComment(IsBusy)
    /\ TTSEngineSpeak(text, FALSE, elapsed)

\* _process_queue, line 242: message_queue.get returns the first message
ProcessQueueGet ==
    /\ processing_thread = "get"
    /\ tts_is_running
    /\ \E item \in QueueHead :
           /\ message_queue' = message_queue \ {item}
           /\ processed' = Append(processed, item)
    /\ processing_thread' = "got"
    /\ UNCHANGED <<tts_is_running, currently_speaking, nspeak, tts_clock>>
    /\ EngineStep

\* _process_queue, line 245
ProcessQueueSpeaking ==
    /\ processing_thread = "got"
    /\ currently_speaking' = TRUE
    /\ processing_thread' = "speaking"
    /\ UNCHANGED <<tts_is_running, message_queue, processed, nspeak, tts_clock>>
    /\ EngineStep

\* _process_queue, lines 247-268: synthesis and playback end, by success or
\* by a caught exception
ProcessQueueDone ==
    /\ processing_thread = "speaking"
    /\ currently_speaking' = FALSE
    /\ processing_thread' = "get"
    /\ UNCHANGED <<tts_is_running, message_queue, processed, nspeak, tts_clock>>
    /\ EngineStep

ProcessQueue == ProcessQueueGet \/ ProcessQueueSpeaking \/ ProcessQueueDone

NextEngine ==
    \/ TTSEngineStart
    \/ \E text \in Texts, priority \in BOOLEAN, elapsed \in {0, 1} :
           TTSEngineSpeak(text, priority, elapsed)
    \/ \E text \in Texts, elapsed \in {0, 1} : TickerSpeak(text, elapsed)
    \/ ProcessQueue

\* the engine of the assembled assistant and the engine of the harness
InitEngine == InitGSI /\ InitBrain /\ InitAppState /\ tts = TRUE /\ assembled \in BOOLEAN

SpecEngine == InitEngine /\ [][NextEngine]_vars

\* a started thread is scheduled again and again, and start() returns
SpecEngineFair ==
    SpecEngine /\ WF_vars(ProcessQueue) /\ WF_vars(TTSEngineStart)

\* ------------------------------------------------------------------------
\* C39: the responder drains its queue in the assembled assistant. After
\* IrisAssistant.start() every message enqueued with TTSEngine.speak is
\* eventually dequeued by the queue processor, so that is_busy()
\* eventually returns false again and the ticker's idleness check can
\* succeed on a later tick.
\* ------------------------------------------------------------------------
C39_QueueDrains == (assembled /\ IsBusy) ~> ~IsBusy

\* the same statement holds of an engine that was started
C39_StartedEngineDrains == (~assembled /\ IsBusy) ~> ~IsBusy

\* in the assembled assistant no message ever leaves the queue
C39_AssembledNeverDequeues == assembled => processed = <<>> /\ ~tts_is_running

\* the message _process_queue takes out in this step, if it takes one
Taken == {item \in message_queue : item \notin message_queue'}

\* a started engine takes priority messages first
C39_PriorityFirst ==
    [][\A taken \in Taken : \A item \in message_queue :
           taken.priority <= item.priority]_vars

\* a started engine takes messages of equal priority in the order of their
\* speak calls
C39_EnqueueOrder ==
    [][\A taken \in Taken : \A item \in message_queue :
           item.priority = taken.priority => taken.seq <= item.seq]_vars

\* the same, for speak calls between which the clock moved
C39_EnqueueOrderOfDistinctTimes ==
    [][\A taken \in Taken : \A item \in message_queue :
           item.priority = taken.priority /\ item.counter # taken.counter
               => taken.seq <= item.seq]_vars
====
